---- MODULE Spec2Model ----
(***************************************************************************)
(* Block execution pipeline of ethereum_rust: the block importer           *)
(* (crates/blockchain/blockchain.rs), the block executor built on revm     *)
(* (crates/evm/evm.rs), the revm database adapter (crates/evm/database.rs) *)
(* and the fork selection; and the interpreter of levm                      *)
(* (crates/levm/src/vm.rs, call_frame.rs, memory.rs).                      *)
(*                                                                         *)
(* Nine specifications share the definitions below:                       *)
(*   Spec      one add_block call on a store holding a genesis block       *)
(*   SpecEvm   one life of an EvmState: execute, then apply_state_         *)
(*             transitions, and the reads of the database adapter          *)
(*   SpecFork  spec_id over every chain configuration                      *)
(*   SpecVm    one VM::execute over a bytecode, instruction by instruction *)
(*   SpecMemory  one Memory under the instructions that read and write it   *)
(*   SpecForkChoice  new_head calls on a store holding a tree of blocks     *)
(*   SpecAncestry  one find_ancestry call over two headers and a store       *)
(*   SpecStore  the adds and the reads of a Store and a clone of it          *)
(*   SpecBodies  one BlockBodies::build_from over a request and a store      *)
(***************************************************************************)
EXTENDS Integers, Sequences, FiniteSets, TLC

VARIABLES
    config,          \* ChainConfig kept by the Store: shanghai_time, cancun_time
    accountInfos,    \* Store table: address -> Option<AccountInfo>
    accountStorage,  \* Store table AccountStorages: address -> set of <<slot key, value>>
    headers,         \* Store table Headers: the set of stored block headers (keyed by hash)
    bodies,          \* Store table Bodies: the set of <<block hash, body>>
    receipts,        \* Store table Receipts: the set of <<block hash, index, receipt>>
    stateTries,      \* Store table StateTrieNodes: the world states whose trie is persisted
    canonicalBlockHashes,  \* Store table CanonicalBlockHashes: the set of <<number, block hash>>
    chainData,       \* Store table ChainData: the finalized, safe and latest block number
    engine,          \* the StoreEngine shared by a Store of crates/storage/src/lib.rs and
                     \* its clones: its tables of headers, bodies, numbers and codes
    evm,             \* EvmState (revm State): the accounts changed since the bundle was taken
    vm,              \* levm VM: call_frames, accounts, gas_limit, consumed_gas, and the
                     \* running frame of execute()
    memory,          \* levm Memory: its data, a Vec<u8>
    pc,              \* position of the caller: "idle", "executed", "applied", "returned";
                     \* in execute(): "running", "returned", "panicked"
    last             \* the last call: its name, inputs and result

vars == <<config, accountInfos, accountStorage, headers, bodies, receipts, stateTries,
          canonicalBlockHashes, chainData, engine, evm, vm, memory, pc, last>>

chainVars == <<canonicalBlockHashes, chainData>>
storeVars == <<accountInfos, accountStorage, headers, bodies, receipts, stateTries, chainVars>>
flatVars == <<accountInfos, accountStorage>>
blockVars == <<headers, bodies, receipts, stateTries>>

\* ChainData before any fork choice: no finalized, safe or latest block number
NoChainData == [finalized |-> <<>>, safe |-> <<>>, latest |-> <<>>]

-----------------------------------------------------------------------------
(* Bounds of the model *)

MaxTime == 3          \* fork activation times and block timestamps range over 0..MaxTime
MaxBlockTime == 1     \* timestamps of the blocks given to the executor
MaxTxs == 2           \* transactions per block
MaxWithdrawals == 2   \* withdrawals per block
MaxAmount == 1        \* withdrawal amount, in Gwei
MaxItems == 2         \* transactions plus withdrawals of one executed block
MaxBlockNumber == 2   \* block numbers of the blocks offered to add_block

-----------------------------------------------------------------------------
(* Option<T>: None is the empty tuple, Some(v) the one-element tuple *)

None == <<>>
Some(v) == <<v>>
IsSome(o) == o # <<>>
IsNone(o) == o = <<>>
Unwrap(o) == o[1]
OptionOf(S) == {None} \cup {Some(v) : v \in S}

RECURSIVE SeqsUpTo(_, _)
SeqsUpTo(S, n) ==
    IF n = 0 THEN {<<>>}
    ELSE LET shorter == SeqsUpTo(S, n - 1)
         IN shorter \cup {Append(s, x) : s \in {t \in shorter : Len(t) = n - 1}, x \in S}

-----------------------------------------------------------------------------
(* U256 amounts of wei.  TLC's integers are 32 bits wide, so an amount is   *)
(* kept as two digits in base GWEI_TO_WEI: <<g, r>> is g * 10^9 + r wei.    *)

GWEI_TO_WEI == 1000000000

ToWei(n) == <<n \div GWEI_TO_WEI, n % GWEI_TO_WEI>>
WeiZero == <<0, 0>>
WeiAdd(x, y) ==
    LET r == x[2] + y[2]
    IN <<x[1] + y[1] + (r \div GWEI_TO_WEI), r % GWEI_TO_WEI>>
WeiGeq(x, y) == x[1] > y[1] \/ (x[1] = y[1] /\ x[2] >= y[2])
WeiSub(x, y) ==
    IF x[2] >= y[2] THEN <<x[1] - y[1], x[2] - y[2]>>
    ELSE <<x[1] - y[1] - 1, x[2] + GWEI_TO_WEI - y[2]>>
\* n * k for a small n: the digits of k are multiplied one by one
WeiMul(n, k) ==
    LET kw == ToWei(k)
        lo == n * kw[2]
    IN <<n * kw[1] + (lo \div GWEI_TO_WEI), lo % GWEI_TO_WEI>>

-----------------------------------------------------------------------------
(* Addresses, accounts, storage *)

SYSTEM_ADDRESS == "fffffffffffffffffffffffffffffffffffffffe"
CONTRACT_ADDRESS == "000F3df6D732807Ef1319fB7B8bB8522d0Beac02"
Alice == "aa"
Bob == "bb"
Factory == "fa"
Addresses == {SYSTEM_ADDRESS, CONTRACT_ADDRESS, Alice, Bob, Factory}

\* code hashes: no code, the EIP-4788 beacon roots contract, a contract that
\* self-destructs to its caller, and a factory whose CREATE2 deploys the
\* self-destructing contract at Bob with the value it is called with
KECCAK_EMPTY == "KECCAK_EMPTY"
BEACON_CODE == "BEACON_CODE"
SD_CODE == "SD_CODE"
FACTORY_CODE == "FACTORY_CODE"

AccountInfo(b, n, c) == [balance |-> b, nonce |-> n, code_hash |-> c]
DefaultInfo == AccountInfo(WeiZero, 0, KECCAK_EMPTY)
IsEmptyInfo(info) ==
    info.balance = WeiZero /\ info.nonce = 0 /\ info.code_hash = KECCAK_EMPTY

HISTORY_BUFFER_LENGTH == 8191
BeaconRoots == {17}
TimestampSlot(ts) == ts % HISTORY_BUFFER_LENGTH
RootSlot(ts) == (ts % HISTORY_BUFFER_LENGTH) + HISTORY_BUFFER_LENGTH
Slots == {TimestampSlot(t) : t \in 0..MaxBlockTime} \cup {RootSlot(t) : t \in 0..MaxBlockTime}

\* AccountStorages is a dup-sorted table: an address holds a sorted set of
\* <<slot key, value>> entries
NoStorage == [a \in Addresses |-> {}]

-----------------------------------------------------------------------------
(* Chain configuration and fork selection *)

ChainConfig(shanghai, cancun) == [shanghai_time |-> shanghai, cancun_time |-> cancun]

\* the same, with the activation time excluded (mutant)
spec_id_strict(cfg, block_timestamp) ==
    IF IsSome(cfg.cancun_time) /\ Unwrap(cfg.cancun_time) < block_timestamp THEN "CANCUN"
    ELSE IF IsSome(cfg.shanghai_time) /\ Unwrap(cfg.shanghai_time) < block_timestamp THEN "SHANGHAI"
    ELSE "MERGE"

\* spec_id: the fork of a block timestamp under the stored chain config
spec_id(cfg, block_timestamp) ==
    IF IsSome(cfg.cancun_time) /\ Unwrap(cfg.cancun_time) <= block_timestamp THEN "CANCUN"
    ELSE IF IsSome(cfg.shanghai_time) /\ Unwrap(cfg.shanghai_time) <= block_timestamp THEN "SHANGHAI"
    ELSE "MERGE"

-----------------------------------------------------------------------------
(* The database adapter: what revm reads.  A view is the account table and *)
(* the storage table the adapter reads from.                                *)

View(infos, slots) == [infos |-> infos, storage |-> slots]

\* StoreWrapper::basic
basic(view, address) == view.infos[address]

\* Store::get_storage_at of the libmdbx engine: the cursor of the dup-sorted
\* AccountStorages table is placed by seek_value at the first entry of the
\* address whose slot key is not below the key asked for, and the value of
\* that entry is returned with no comparison of its key
EntryLeq(e, f) == e[1] < f[1] \/ (e[1] = f[1] /\ e[2] <= f[2])
get_storage_at(slots, address, storage_key) ==
    LET found == {e \in slots[address] : e[1] >= storage_key}
    IN IF found = {} THEN None
       ELSE Some((CHOOSE e \in found : \A f \in found : EntryLeq(e, f))[2])

\* StoreWrapper::storage: Err(StoreError::Custom) when the store returns None
storage(view, address, index) ==
    LET v == get_storage_at(view.storage, address, index)
    IN IF IsSome(v) THEN [ok |-> TRUE, value |-> Unwrap(v)] ELSE [ok |-> FALSE, value |-> 0]

-----------------------------------------------------------------------------
(* EvmState: revm's State over the adapter.  It keeps, for every account    *)
(* changed since the bundle was last taken, the present info, the info      *)
(* before the first change, the account status and the changed slots.       *)

EmptyEvm == [a \in Addresses |-> None]
NoSlots == [k \in Slots |-> None]

LoadedStatus(o) ==
    IF IsNone(o) THEN "LoadedNotExisting"
    ELSE IF IsEmptyInfo(Unwrap(o)) THEN "LoadedEmptyEIP161"
    ELSE "Loaded"

\* Option<AccountInfo> of an address as the executor sees it now
AccountOf(st, view, a) == IF IsSome(st[a]) THEN Unwrap(st[a]).info ELSE basic(view, a)
StatusOf(st, view, a) ==
    IF IsSome(st[a]) THEN Unwrap(st[a]).status ELSE LoadedStatus(basic(view, a))
OrDefault(o) == IF IsSome(o) THEN Unwrap(o) ELSE DefaultInfo
InfoOf(st, view, a) == OrDefault(AccountOf(st, view, a))

\* revm AccountStatus transitions
on_changed(status) ==
    CASE status \in {"LoadedNotExisting", "LoadedEmptyEIP161", "InMemoryChange"} -> "InMemoryChange"
      [] status \in {"Loaded", "Changed"} -> "Changed"
      [] OTHER -> "DestroyedChanged"
on_touched_created_pre_eip161(status) ==
    CASE status \in {"LoadedNotExisting", "InMemoryChange"} -> "InMemoryChange"
      [] status \in {"Loaded", "Changed"} -> "Changed"
      [] OTHER -> "DestroyedChanged"
on_selfdestructed(status) ==
    IF status \in {"Destroyed", "DestroyedChanged", "DestroyedAgain"} THEN "DestroyedAgain"
    ELSE "Destroyed"
on_created(status) ==
    IF status \in {"Destroyed", "DestroyedChanged", "DestroyedAgain"} THEN "DestroyedChanged"
    ELSE "InMemoryChange"

\* one transition of account a: writes maps the written slots to their
\* [original, present] values
MergeSlots(old, writes) ==
    [k \in Slots |->
        IF k \in DOMAIN writes
        THEN Some([original |-> IF IsSome(old[k]) THEN Unwrap(old[k]).original
                                ELSE writes[k].original,
                   present |-> writes[k].present])
        ELSE old[k]]
Transition(st, view, a, info, status, writes, wipe) ==
    [st EXCEPT ![a] =
        Some([info |-> info,
              original_info |-> IF IsSome(st[a]) THEN Unwrap(st[a]).original_info
                                ELSE basic(view, a),
              status |-> status,
              storage |-> MergeSlots(IF IsSome(st[a]) /\ ~wipe THEN Unwrap(st[a]).storage
                                     ELSE NoSlots, writes)])]

\* revm CacheState::apply_account_state with the state clear flag off
\* (evm_state builds the State without_state_clear)
apply_account_state(st, view, a, info, writes, selfdestructed, created, status) ==
       IF selfdestructed
       THEN Transition(st, view, a, None, on_selfdestructed(status), <<>>, TRUE)
       ELSE IF created
       THEN Transition(st, view, a, Some(info), on_created(status), writes, TRUE)
       ELSE IF IsEmptyInfo(info)
       THEN IF status = "LoadedEmptyEIP161" THEN st
            ELSE Transition(st, view, a, Some(info), on_touched_created_pre_eip161(status), writes, FALSE)
       ELSE Transition(st, view, a, Some(info), on_changed(status), writes, FALSE)
CommitAccount(st, view, a, info, writes, selfdestructed, created) ==
    apply_account_state(st, view, a, info, writes, selfdestructed, created, StatusOf(st, view, a))

\* revm DatabaseCommit::commit of a result state: post maps each touched
\* address to its info, writes each address to its written slots; destroyed
\* and created are the addresses marked self-destructed and created
Commit(st, view, post, writes, destroyed, created) ==
    [a \in Addresses |->
        IF a \in DOMAIN post
        THEN CommitAccount(st, view, a, post[a],
                           IF a \in DOMAIN writes THEN writes[a] ELSE <<>>,
                           a \in destroyed, a \in created)[a]
        ELSE st[a]]

-----------------------------------------------------------------------------
(* Transactions.  A transaction is [sender, to, value, nonce, blobs]: value *)
(* in wei, blobs the length of blob_versioned_hashes (0 for a transaction   *)
(* that is not an EIP-4844 one).  Gas price and base fee are 0.             *)

Tx(s, t, v, n, b) == [sender |-> s, to |-> t, value |-> v, nonce |-> n, blobs |-> b]
TX_BASE_GAS == 21000
SELFDESTRUCT_GAS == 5000

Result(ok, st) == [ok |-> ok, state |-> st]

\* revm transact_commit as run_evm calls it, for a call with empty calldata:
\* the validation of the transaction against the state, then the transfer,
\* the callee's code and the commit of the touched accounts.  The factory's
\* CREATE2 fails, the value staying with the factory, when Bob has code or a
\* nonce; a contract destroyed by an earlier transaction has neither.
transact_commit(st, view, tx, header, spec, si, ti, bi) ==
    LET s == tx.sender
        t == tx.to
        v == ToWei(tx.value)
        invalid == \/ tx.blobs > 0 /\ spec # "CANCUN"
                   \/ si.code_hash # KECCAK_EMPTY
                   \/ tx.nonce # si.nonce
                   \/ ~WeiGeq(si.balance, v)
        code == IF t = s THEN KECCAK_EMPTY ELSE ti.code_hash
        reverted == code = BEACON_CODE
        creates == code = FACTORY_CODE /\ bi.code_hash = KECCAK_EMPTY /\ bi.nonce = 0
                   /\ Bob \notin {s, t}
        s1 == [si EXCEPT !.nonce = @ + 1]
        sPost == CASE t = s -> s1
                   [] code = SD_CODE -> [s1 EXCEPT !.balance = WeiAdd(@, ti.balance)]
                   [] reverted -> s1
                   [] OTHER -> [s1 EXCEPT !.balance = WeiSub(@, v)]
        tPost == CASE code = KECCAK_EMPTY -> [ti EXCEPT !.balance = WeiAdd(@, v)]
                   [] code = SD_CODE -> [ti EXCEPT !.balance = WeiZero]
                   [] code = FACTORY_CODE ->
                        [ti EXCEPT !.nonce = @ + 1,
                                   !.balance = IF creates THEN @ ELSE WeiAdd(@, v)]
                   [] OTHER -> ti
        touched == {s, header.coinbase} \cup (IF reverted THEN {} ELSE {t})
                   \cup (IF creates THEN {Bob} ELSE {})
        post == [a \in touched |->
                    IF a = s THEN sPost
                    ELSE IF a = t THEN tPost
                    ELSE IF a = Bob /\ creates THEN AccountInfo(WeiAdd(bi.balance, v), 1, SD_CODE)
                    ELSE InfoOf(st, view, a)]
        destroyed == IF code = SD_CODE /\ spec # "CANCUN" THEN {t} ELSE {}
        created == IF creates THEN {Bob} ELSE {}
        gas == IF code = SD_CODE THEN TX_BASE_GAS + SELFDESTRUCT_GAS ELSE TX_BASE_GAS
    IN IF invalid
       THEN [ok |-> FALSE, state |-> st, gas_used |-> 0, success |-> FALSE]
       ELSE [ok |-> TRUE, state |-> Commit(st, view, post, <<>>, destroyed, created),
             gas_used |-> gas, success |-> ~reverted]

\* run_evm: the accounts of the sender, the callee and the CREATE2 target are
\* loaded through the adapter, the transaction is run and committed
run_evm(st, view, tx, header, spec) ==
    transact_commit(st, view, tx, header, spec, InfoOf(st, view, tx.sender),
                    InfoOf(st, view, tx.to), InfoOf(st, view, Bob))

\* execute_tx
execute_tx(st, view, tx, header, spec) == run_evm(st, view, tx, header, spec)

-----------------------------------------------------------------------------
(* The EIP-4788 system call *)

\* evm.transact() of the system call: the result state it returns, before
\* anything is committed.  The caller's nonce is bumped, the coinbase is
\* touched, and the beacon roots contract, when deployed, stores the
\* timestamp and the root; revm reads both slots through the adapter first.
\* an SLOAD of the beacon roots contract: the slot cached in the state, or
\* else read through the adapter
sload(st, view, k) ==
    IF IsSome(st[CONTRACT_ADDRESS]) /\ IsSome(Unwrap(st[CONTRACT_ADDRESS]).storage[k])
    THEN [ok |-> TRUE, value |-> Unwrap(Unwrap(st[CONTRACT_ADDRESS]).storage[k]).present]
    ELSE storage(view, CONTRACT_ADDRESS, k)

BeaconResult(st, view, header, sys, deployed, r1, r2) ==
    IF sys.code_hash # KECCAK_EMPTY \/ (deployed /\ (~r1.ok \/ ~r2.ok))
    THEN [ok |-> FALSE, post |-> <<>>, writes |-> <<>>]
    ELSE [ok |-> TRUE,
          post |-> [a \in {SYSTEM_ADDRESS, CONTRACT_ADDRESS, header.coinbase} |->
                       IF a = SYSTEM_ADDRESS THEN [sys EXCEPT !.nonce = @ + 1]
                       ELSE InfoOf(st, view, a)],
          writes |-> IF deployed
                     THEN (CONTRACT_ADDRESS :>
                             (TimestampSlot(header.timestamp) :>
                                 [original |-> r1.value, present |-> header.timestamp]
                              @@ RootSlot(header.timestamp) :>
                                 [original |-> r2.value,
                                  present |-> Unwrap(header.parent_beacon_block_root)]))
                     ELSE <<>>]

BeaconTransact(st, view, header) ==
    BeaconResult(st, view, header, InfoOf(st, view, SYSTEM_ADDRESS),
                 InfoOf(st, view, CONTRACT_ADDRESS).code_hash = BEACON_CODE,
                 sload(st, view, TimestampSlot(header.timestamp)),
                 sload(st, view, RootSlot(header.timestamp)))

Restrict(f, S) == [x \in (DOMAIN f) \ S |-> f[x]]

\* the result state of the system call committed, the accounts in removed
\* taken out of it first
commit_without(st, view, r, removed) ==
    IF ~r.ok THEN Result(FALSE, st)
    ELSE Result(TRUE, Commit(st, view, Restrict(r.post, removed),
                             Restrict(r.writes, removed), {}, {}))

\* the same, the coinbase left in the committed state (mutant)
beacon_root_contract_call_keep_coinbase(st, view, header, spec) ==
    IF IsNone(header.parent_beacon_block_root) THEN Result(FALSE, st)
    ELSE commit_without(st, view, BeaconTransact(st, view, header), {SYSTEM_ADDRESS})

\* beacon_root_contract_call
beacon_root_contract_call(st, view, header, spec) ==
    IF IsNone(header.parent_beacon_block_root) THEN Result(FALSE, st)
    ELSE commit_without(st, view, BeaconTransact(st, view, header),
                        {SYSTEM_ADDRESS, header.coinbase})

-----------------------------------------------------------------------------
(* Withdrawals: [address, amount], the amount in Gwei *)

Withdrawal(a, n) == [address |-> a, amount |-> n]

\* revm State::increment_balances
RECURSIVE increment_balances(_, _, _)
increment_balances(st, view, incs) ==
    IF incs = <<>> THEN st
    ELSE increment_balances(
            IF Head(incs)[2] = WeiZero THEN st
            ELSE Transition(st, view, Head(incs)[1],
                            Some([InfoOf(st, view, Head(incs)[1])
                                     EXCEPT !.balance = WeiAdd(@, Head(incs)[2])]),
                            on_changed(StatusOf(st, view, Head(incs)[1])), <<>>, FALSE),
            view, Tail(incs))

BalanceIncrements(withdrawals, factor) ==
    LET kept == SelectSeq(withdrawals, LAMBDA w : w.amount > 0)
    IN [i \in 1..Len(kept) |-> <<kept[i].address, WeiMul(kept[i].amount, factor)>>]

\* the same, the amount credited as wei (mutant)
process_withdrawals_no_conversion(st, view, withdrawals) ==
    Result(TRUE, increment_balances(st, view, BalanceIncrements(withdrawals, 1)))

\* process_withdrawals
process_withdrawals(st, view, withdrawals) ==
    Result(TRUE, increment_balances(st, view, BalanceIncrements(withdrawals, GWEI_TO_WEI)))

-----------------------------------------------------------------------------
(* Blocks and their execution *)

Header(parent, number, ts, coinbase, gas, root, blobGas, beaconRoot) ==
    [parent_hash |-> parent, number |-> number, timestamp |-> ts, coinbase |-> coinbase,
     gas_used |-> gas, state_root |-> root, blob_gas_used |-> blobGas,
     parent_beacon_block_root |-> beaconRoot]
Body(txs, withdrawals) == [transactions |-> txs, withdrawals |-> withdrawals]
Block(header, body) == [header |-> header, body |-> body]

\* the steps of execute_block, as they are named in a trace
BeaconStep == <<"beacon_root_contract_call", 0>>
TxStep(i) == <<"execute_tx", i>>
WithdrawalsStep == <<"process_withdrawals", 0>>

\* Receipt::new(tx_type, succeeded, cumulative_gas_used, logs) pushed after a
\* transaction: the gas of the transaction added to the running total
push_receipt(rs, result) ==
    LET before == IF rs = <<>> THEN 0 ELSE rs[Len(rs)].cumulative_gas_used
    IN Append(rs, [succeeded |-> result.success,
                   cumulative_gas_used |-> before + result.gas_used])

Outcome(ok, st, trace, rs) == [ok |-> ok, state |-> st, trace |-> trace, receipts |-> rs]

\* a step of the block done with result r: its error ends the block with `?`,
\* its state is carried on otherwise
after_step(acc, r, step, rs) ==
    IF ~r.ok THEN [acc EXCEPT !.ok = FALSE]
    ELSE Outcome(TRUE, r.state, Append(acc.trace, step), rs)

\* the same, a failing transaction skipped and the block carried on (mutant)
after_tx_skipping(acc, r, i) ==
    IF ~r.ok THEN acc
    ELSE after_step(acc, r, TxStep(i), push_receipt(acc.receipts, r))

\* one turn of the loop over block.body.transactions, r the result of
\* execute_tx
after_tx(acc, r, i) == after_step(acc, r, TxStep(i), push_receipt(acc.receipts, r))

\* the loop over block.body.transactions: the first error ends it
RECURSIVE execute_txs(_, _, _, _, _, _)
execute_txs(acc, view, txs, i, header, spec) ==
    IF i > Len(txs) \/ ~acc.ok THEN acc
    ELSE execute_txs(after_tx(acc, execute_tx(acc.state, view, txs[i], header, spec), i),
                     view, txs, i + 1, header, spec)

\* the withdrawals of the block, processed when it has them
execute_withdrawals(acc, view, body) ==
    IF acc.ok /\ IsSome(body.withdrawals)
    THEN after_step(acc, process_withdrawals(acc.state, view, Unwrap(body.withdrawals)),
                    WithdrawalsStep, acc.receipts)
    ELSE acc

\* execute_block under the fork spec: the beacon root call, the
\* transactions, the withdrawals.  The state keeps what the steps before a
\* failing one have committed.
execute_block_in(st, view, block, spec) ==
    execute_withdrawals(
        execute_txs(
            IF IsSome(block.header.parent_beacon_block_root) /\ spec = "CANCUN"
            THEN after_step(Outcome(TRUE, st, <<>>, <<>>),
                            beacon_root_contract_call(st, view, block.header, spec),
                            BeaconStep, <<>>)
            ELSE Outcome(TRUE, st, <<>>, <<>>),
            view, block.body.transactions, 1, block.header, spec),
        view, block.body)

\* execute_block: the fork is the one of the block's timestamp
execute_block(st, view, block, cfg) ==
    execute_block_in(st, view, block, spec_id(cfg, block.header.timestamp))

-----------------------------------------------------------------------------
(* apply_state_transitions: the bundle written to the account tables *)

is_not_modified(status) == status \in {"LoadedNotExisting", "Loaded", "LoadedEmptyEIP161"}
was_destroyed(status) == status \in {"Destroyed", "DestroyedChanged", "DestroyedAgain"}
is_info_changed(acc) == acc.info # acc.original_info
is_changed(slot) == slot.original # slot.present

Entry(info, slots) == [info |-> info, storage |-> slots]

\* Store::remove_account
remove_account(entry) == Entry(None, {})

\* the writes of the changed slots, Store::add_storage_at for each: an entry
\* is added to the dup-sorted table, and an entry of the same slot key with
\* another value stays
WriteSlots(acc, slots) ==
    slots \cup {<<k, Unwrap(acc.storage[k]).present>> :
                   k \in {j \in Slots : IsSome(acc.storage[j]) /\ is_changed(Unwrap(acc.storage[j]))}}

\* the body of the loop over bundle.state(): what one bundle account does to
\* the store's entry of its address
ApplyAccount(acc, entry) ==
    IF is_not_modified(acc.status) THEN entry
    ELSE LET e1 == IF was_destroyed(acc.status) THEN remove_account(entry) ELSE entry
         IN IF IsSome(acc.info) /\ IsEmptyInfo(Unwrap(acc.info)) THEN e1
            ELSE LET e2 == IF is_info_changed(acc) /\ IsSome(acc.info)
                           THEN Entry(acc.info, e1.storage) ELSE e1
                 IN Entry(e2.info, WriteSlots(acc, e2.storage))

\* apply_state_transitions: the accounts of the bundle are independent of
\* each other, so the order of the iteration does not show
apply_state_transitions(st, infos, slots) ==
    LET after == [a \in Addresses |->
                     IF IsSome(st[a]) THEN ApplyAccount(Unwrap(st[a]), Entry(infos[a], slots[a]))
                     ELSE Entry(infos[a], slots[a])]
    IN View([a \in Addresses |-> after[a].info], [a \in Addresses |-> after[a].storage])

\* the loop of apply_state_transitions as it runs: bundle.state() is a
\* HashMap, visited in an order the program does not choose.  One turn of the
\* loop reads and writes the store's entry of the visited address.
SetEntry(view, a, entry) ==
    View([view.infos EXCEPT ![a] = entry.info], [view.storage EXCEPT ![a] = entry.storage])

\* one turn of the loop, remove_account dropping every account (mutant)
visit_account_clearing(view, st, a) ==
    IF was_destroyed(Unwrap(st[a]).status)
    THEN View([b \in Addresses |-> None], NoStorage)
    ELSE SetEntry(view, a, ApplyAccount(Unwrap(st[a]), Entry(view.infos[a], view.storage[a])))

visit_account(view, st, a) ==
    SetEntry(view, a, ApplyAccount(Unwrap(st[a]), Entry(view.infos[a], view.storage[a])))

RECURSIVE apply_in_order(_, _, _)
apply_in_order(st, view, order) ==
    IF order = <<>> THEN view
    ELSE apply_in_order(st, visit_account(view, st, Head(order)), Tail(order))

\* the orders in which the accounts of a bundle can be visited
Orders(st) ==
    {o \in [1..Cardinality({a \in Addresses : IsSome(st[a])}) -> {a \in Addresses : IsSome(st[a])}] :
        \A i, j \in DOMAIN o : i # j => o[i] # o[j]}

-----------------------------------------------------------------------------
(* The block importer.  A block hash is the hash of the encoded header: it  *)
(* is kept as the header itself in a one-element tuple, the zero hash as    *)
(* the empty tuple.  A state root is kept the same way over the world state *)
(* (the account table and the storage table) it is the root of.             *)

compute_block_hash(header) == <<header>>
NoHash == <<>>
RootOf(world) == <<world>>

ChainStore(hs, bs, rs, tries, canonical, data) ==
    [headers |-> hs, bodies |-> bs, receipts |-> rs, tries |-> tries, canonical |-> canonical,
     data |-> data]

\* Store::get_block_header_by_hash
get_block_header_by_hash(store, hash) ==
    LET found == {h \in store.headers : compute_block_hash(h) = hash}
    IN IF found = {} THEN None ELSE Some(CHOOSE h \in found : TRUE)

Found(result, parent) == [result |-> result, parent |-> parent]

\* find_parent_header: the set of its outcomes.  block_header.number - 1 is a
\* u64 subtraction: for number 0 it panics in a build with overflow checks
\* and wraps to 2^64 - 1 in a build without; the wrapped value, which no
\* block number of the model reaches, is written -1.
find_parent_header(block_header, store) ==
    LET p == get_block_header_by_hash(store, block_header.parent_hash)
        compared == IF Unwrap(p).number = block_header.number - 1
                    THEN Found("Ok", p) ELSE Found("ParentNotFound", None)
    IN IF IsNone(p) THEN {Found("ParentNotFound", None)}
       ELSE IF block_header.number = 0 THEN {Found("Panic", None), compared}
       ELSE {compared}

\* validate_block_header: the header against its parent
validate_block_header(header, parent_header) ==
    /\ header.number = parent_header.number + 1
    /\ header.timestamp > parent_header.timestamp

\* validate_cancun_header_fields and validate_no_cancun_header_fields: the
\* Cancun-only fields are present from Cancun on and absent before
validate_cancun_header_fields(header, parent_header) ==
    IsSome(header.blob_gas_used) /\ IsSome(header.parent_beacon_block_root)
validate_no_cancun_header_fields(header) ==
    IsNone(header.blob_gas_used) /\ IsNone(header.parent_beacon_block_root)

GAS_PER_BLOB == 131072
MAX_BLOB_NUMBER_PER_BLOCK == 6
MAX_BLOB_GAS_PER_BLOCK == 786432

\* get_total_blob_gas
get_total_blob_gas(tx) == GAS_PER_BLOB * tx.blobs

\* the two sums of the loop over the transactions of the block
RECURSIVE SumBlobs(_, _)
SumBlobs(txs, i) == IF i > Len(txs) THEN 0 ELSE txs[i].blobs + SumBlobs(txs, i + 1)
RECURSIVE SumBlobGas(_, _)
SumBlobGas(txs, i) ==
    IF i > Len(txs) THEN 0 ELSE get_total_blob_gas(txs[i]) + SumBlobGas(txs, i + 1)
blobs_in_block(block) == SumBlobs(block.body.transactions, 1)
blob_gas_used(block) == SumBlobGas(block.body.transactions, 1)

\* verify_blob_gas_usage
verify_blob_gas_usage(block) ==
    IF blob_gas_used(block) > MAX_BLOB_GAS_PER_BLOCK THEN "ExceededMaxBlobGasPerBlock"
    ELSE IF blobs_in_block(block) > MAX_BLOB_NUMBER_PER_BLOCK THEN "ExceededMaxBlobNumberPerBlock"
    ELSE IF IsSome(block.header.blob_gas_used)
            /\ Unwrap(block.header.blob_gas_used) # blob_gas_used(block)
    THEN "BlobGasUsedMismatch"
    ELSE "Ok"

\* validate_block
validate_block(block, parent_header, cfg) ==
    LET spec == spec_id(cfg, block.header.timestamp)
        valid_header ==
            /\ validate_block_header(block.header, parent_header)
            /\ IF spec = "CANCUN"
               THEN validate_cancun_header_fields(block.header, parent_header)
               ELSE validate_no_cancun_header_fields(block.header)
    IN IF ~valid_header THEN "InvalidHeader"
       ELSE IF spec = "CANCUN" THEN verify_blob_gas_usage(block)
       ELSE "Ok"

\* validate_gas_used
validate_gas_used(rs, block_header) ==
    IF rs # <<>> /\ rs[Len(rs)].cumulative_gas_used # block_header.gas_used
    THEN "GasUsedMismatch" ELSE "Ok"

\* validate_state_root
validate_state_root(block_header, new_state_root) ==
    IF new_state_root = block_header.state_root THEN "Ok" ELSE "StateRootMismatch"

\* evm_state(store, parent_hash): the world state the adapter reads, the one
\* of the parent block
evm_state(parent_header) == Unwrap(parent_header.state_root)

\* Store::apply_account_updates over the bundle of get_state_transitions:
\* the updates applied over the parent's world state, the new state trie
\* written to the store, its root returned
commit_trie(store, world) ==
    [root |-> RootOf(world), store |-> [store EXCEPT !.tries = @ \cup {world}]]
apply_account_updates(store, parent_header, st) ==
    commit_trie(store, apply_state_transitions(st, evm_state(parent_header).infos,
                                               evm_state(parent_header).storage))

\* a store_block that makes the block the canonical block of its number and
\* the latest block
store_block_as_head(store, block) ==
    [store EXCEPT !.headers = @ \cup {block.header},
                  !.bodies = @ \cup {<<compute_block_hash(block.header), block.body>>},
                  !.canonical = {e \in @ : e[1] # block.header.number}
                                   \cup {<<block.header.number, compute_block_hash(block.header)>>},
                  !.data.latest = <<block.header.number>>]

\* store_block: Store::add_block, the writes of add_block_header and
\* add_block_body under the hash of the block
store_block(store, block) ==
    [store EXCEPT !.headers = @ \cup {block.header},
                  !.bodies = @ \cup {<<compute_block_hash(block.header), block.body>>}]

\* store_receipts: Store::add_receipt for each receipt under its index
store_receipts(store, rs, block_hash) ==
    [store EXCEPT !.receipts = @ \cup {<<block_hash, i - 1, rs[i]>> : i \in 1..Len(rs)}]

Returned(result, store, trace) == [result |-> result, store |-> store, trace |-> trace]

\* the end of add_block, updated the outcome of apply_account_updates: the
\* state root is checked, then the block and its receipts are stored
add_block_store(block, run, updated) ==
    IF validate_state_root(block.header, updated.root) # "Ok"
    THEN Returned("StateRootMismatch", updated.store, run.trace)
    ELSE Returned("Ok",
                  store_receipts(store_block(updated.store, block), run.receipts,
                                 compute_block_hash(block.header)),
                  run.trace)

\* add_block after the execution, run the outcome of execute_block: the gas
\* used is checked, then the account updates are applied
add_block_executed(block, parent_header, store, run) ==
    IF ~run.ok THEN Returned("EvmError", store, run.trace)
    ELSE IF validate_gas_used(run.receipts, block.header) # "Ok"
    THEN Returned("GasUsedMismatch", store, run.trace)
    ELSE add_block_store(block, run, apply_account_updates(store, parent_header, run.state))

\* add_block after the parent lookup, valid the outcome of validate_block
add_block_validated(block, parent_header, store, cfg, valid) ==
    IF valid # "Ok" THEN Returned(valid, store, <<>>)
    ELSE add_block_executed(block, parent_header, store,
                            execute_block(EmptyEvm, evm_state(parent_header), block, cfg))

\* add_block, found the outcome of its parent lookup
add_block(block, found, store, cfg) ==
    IF found.result # "Ok" THEN Returned(found.result, store, <<>>)
    ELSE add_block_validated(block, Unwrap(found.parent), store, cfg,
                             validate_block(block, Unwrap(found.parent), cfg))

-----------------------------------------------------------------------------
(* The states before any call *)

NoCall == [op |-> "none"]
NoVm == <<>>
\* no Store of crates/storage/src/lib.rs is open
NoEngine == <<>>
NoBlocks == {}

\* the account table: Alice funded, Bob and the beacon roots contract as given
Accounts(bob, contract) ==
    [a \in Addresses |->
        CASE a = Alice -> Some(AccountInfo(ToWei(2), 0, KECCAK_EMPTY))
          [] a = Bob -> bob
          [] a = CONTRACT_ADDRESS -> contract
          [] a = Factory -> Some(AccountInfo(WeiZero, 1, FACTORY_CODE))
          [] OTHER -> None]

BobStates == {None, Some(DefaultInfo), Some(AccountInfo(ToWei(1), 1, SD_CODE))}
BeaconContract == Some(AccountInfo(WeiZero, 1, BEACON_CODE))
\* the slots of the beacon roots contract after the block of timestamp 1
BeaconSlots == {<<TimestampSlot(1), 1>>, <<RootSlot(1), 5>>}

-----------------------------------------------------------------------------
(* SpecFork: spec_id under every chain configuration *)

InitFork ==
    /\ config \in {ChainConfig(s, c) : s \in OptionOf(0..MaxTime), c \in OptionOf(0..MaxTime)}
    /\ engine = NoEngine
    /\ accountInfos = Accounts(None, None)
    /\ accountStorage = NoStorage
    /\ headers = NoBlocks /\ bodies = NoBlocks /\ receipts = NoBlocks /\ stateTries = NoBlocks
    /\ evm = EmptyEvm
    /\ vm = NoVm
    /\ memory = <<>>
    /\ canonicalBlockHashes = {}
    /\ chainData = NoChainData
    /\ pc = "idle"
    /\ last = NoCall

SpecId(block_timestamp) ==
    /\ pc = "idle"
    /\ pc' = "returned"
    /\ last' = [op |-> "spec_id", timestamp |-> block_timestamp,
                result |-> spec_id(config, block_timestamp)]
    /\ UNCHANGED <<config, engine, storeVars, evm, vm, memory>>

NextFork == \E t \in 0..MaxTime : SpecId(t)

SpecFork == InitFork /\ [][NextFork]_vars

-----------------------------------------------------------------------------
(* SpecEvm: one life of an EvmState over the account tables *)

InitEvm ==
    /\ config \in {ChainConfig(Some(0), c) : c \in {None, Some(1)}}
    /\ engine = NoEngine
    /\ \E bob \in BobStates, deployed \in BOOLEAN, slots \in {{}, BeaconSlots} :
          /\ deployed \/ slots = {}
          /\ accountInfos = Accounts(bob, IF deployed THEN BeaconContract ELSE None)
          /\ accountStorage = [NoStorage EXCEPT ![CONTRACT_ADDRESS] = slots]
    /\ headers = NoBlocks /\ bodies = NoBlocks /\ receipts = NoBlocks /\ stateTries = NoBlocks
    /\ evm = EmptyEvm
    /\ vm = NoVm
    /\ memory = <<>>
    /\ canonicalBlockHashes = {}
    /\ chainData = NoChainData
    /\ pc = "idle"
    /\ last = NoCall

\* the inputs of the executor
Coinbases == {Alice, Bob}
EvmHeaders ==
    {Header(None, 1, t, c, 0, None, None, r) :
        t \in 0..MaxBlockTime, c \in Coinbases, r \in OptionOf(BeaconRoots)}
EvmTxs ==
    {Tx(Alice, Bob, 0, 0, 0), Tx(Alice, Bob, 1, 0, 0), Tx(Alice, Bob, 1, 1, 0),
     Tx(Alice, CONTRACT_ADDRESS, 0, 0, 0), Tx(Alice, Factory, 0, 0, 0), Tx(Alice, Factory, 1, 1, 0)}
Withdrawals == {Withdrawal(a, n) : a \in {Alice, Bob}, n \in 0..MaxAmount}
EvmBodies ==
    {Body(txs, ws) : txs \in SeqsUpTo(EvmTxs, MaxTxs),
                     ws \in OptionOf(SeqsUpTo(Withdrawals, MaxWithdrawals))}
Items(body) ==
    Len(body.transactions) + (IF IsSome(body.withdrawals) THEN Len(Unwrap(body.withdrawals)) ELSE 0)

TheView == View(accountInfos, accountStorage)

ExecuteBlock(block) ==
    /\ pc = "idle"
    /\ Items(block.body) <= MaxItems
    /\ \E r \in {execute_block(evm, TheView, block, config)} :
          /\ evm' = r.state
          /\ last' = [op |-> "execute_block", block |-> block, ok |-> r.ok,
                      trace |-> r.trace, receipts |-> r.receipts]
    /\ pc' = "executed"
    /\ UNCHANGED <<config, engine, storeVars, vm, memory>>

BeaconRootContractCall(header) ==
    /\ pc = "idle"
    /\ \E r \in {beacon_root_contract_call(evm, TheView, header,
                                            spec_id(config, header.timestamp))} :
          /\ evm' = r.state
          /\ last' = [op |-> "beacon_root_contract_call", header |-> header, ok |-> r.ok,
                      before |-> evm]
    /\ pc' = "executed"
    /\ UNCHANGED <<config, engine, storeVars, vm, memory>>

ProcessWithdrawals(withdrawals) ==
    /\ pc = "idle"
    /\ \E r \in {process_withdrawals(evm, TheView, withdrawals)} :
          /\ evm' = r.state
          /\ last' = [op |-> "process_withdrawals", withdrawals |-> withdrawals, ok |-> r.ok,
                      before |-> evm]
    /\ pc' = "executed"
    /\ UNCHANGED <<config, engine, storeVars, vm, memory>>

\* apply_state_transitions, the bundle taken from the state by take_bundle
ApplyStateTransitions ==
    /\ pc = "executed"
    /\ \E order \in Orders(evm) : \E after \in {apply_in_order(evm, TheView, order)} :
          /\ accountInfos' = after.infos
          /\ accountStorage' = after.storage
    /\ last' = [op |-> "apply_state_transitions", bundle |-> evm, before |-> TheView]
    /\ evm' = EmptyEvm
    /\ pc' = "applied"
    /\ UNCHANGED <<config, engine, blockVars, chainVars, vm, memory>>

\* a read of a storage slot through the adapter
Storage(address, index) ==
    /\ pc = "idle"
    /\ pc' = "returned"
    /\ last' = [op |-> "storage", address |-> address, index |-> index,
                result |-> storage(TheView, address, index)]
    /\ UNCHANGED <<config, engine, storeVars, evm, vm, memory>>

NextEvm ==
    \/ pc = "idle" /\ \E h \in EvmHeaders, b \in EvmBodies : ExecuteBlock(Block(h, b))
    \/ pc = "idle" /\ \E h \in EvmHeaders : BeaconRootContractCall(h)
    \/ pc = "idle" /\ \E ws \in SeqsUpTo(Withdrawals, MaxWithdrawals) : ProcessWithdrawals(ws)
    \/ ApplyStateTransitions
    \/ pc = "idle" /\ \E a \in Addresses, k \in Slots : Storage(a, k)

SpecEvm == InitEvm /\ [][NextEvm]_vars

-----------------------------------------------------------------------------
(* Spec: add_block on a store that holds a genesis block *)

GenesisWorld == View(Accounts(None, None), NoStorage)
Genesis == Header(NoHash, 0, 0, Alice, 0, RootOf(GenesisWorld), None, None)

TheStore == ChainStore(headers, bodies, receipts, stateTries, canonicalBlockHashes, chainData)

Init ==
    /\ config \in {ChainConfig(Some(0), c) : c \in {None, Some(2)}}
    /\ engine = NoEngine
    /\ accountInfos = Accounts(None, None)
    /\ accountStorage = NoStorage
    /\ headers = {Genesis}
    /\ bodies = {<<compute_block_hash(Genesis), Body(<<>>, None)>>}
    /\ receipts = NoBlocks
    /\ stateTries = {GenesisWorld}
    /\ evm = EmptyEvm
    /\ vm = NoVm
    /\ memory = <<>>
    /\ canonicalBlockHashes = {<<0, compute_block_hash(Genesis)>>}
    /\ chainData = [NoChainData EXCEPT !.latest = Some(0)]
    /\ pc = "idle"
    /\ last = NoCall

\* the blocks offered to add_block
ChainTxs == {Tx(Alice, Bob, 1, 0, 0), Tx(Alice, Bob, 1, 0, 4), Tx(Alice, Bob, 1, 1, 3)}
ChainBodies ==
    {Body(txs, ws) : txs \in SeqsUpTo(ChainTxs, MaxTxs),
                     ws \in {None, Some(<<Withdrawal(Bob, 1)>>)}}
GasChoices == {0, 1} \cup {TX_BASE_GAS * k : k \in 1..MaxTxs}
BlobGasChoices == OptionOf({0, 3 * GAS_PER_BLOB})
ParentChoices == {compute_block_hash(h) : h \in headers} \cup {NoHash}

\* the state roots a header is offered with: the root of its parent and the
\* root of its own post-state
OwnRoot(run, world) ==
    IF run.ok THEN {RootOf(apply_state_transitions(run.state, world.infos, world.storage))}
    ELSE {}
RootsOver(parent_header, block) ==
    {parent_header.state_root}
        \cup OwnRoot(execute_block(EmptyEvm, evm_state(parent_header), block, config),
                     evm_state(parent_header))
RootChoices(header, body) ==
    IF IsNone(get_block_header_by_hash(TheStore, header.parent_hash)) THEN {NoHash}
    ELSE RootsOver(Unwrap(get_block_header_by_hash(TheStore, header.parent_hash)),
                   Block(header, body))

AddBlock(block) ==
    /\ pc = "idle"
    /\ Items(block.body) <= MaxItems
    /\ \E found \in find_parent_header(block.header, TheStore) :
       \E r \in {add_block(block, found, TheStore, config)} :
             /\ headers' = r.store.headers
             /\ bodies' = r.store.bodies
             /\ receipts' = r.store.receipts
             /\ stateTries' = r.store.tries
             /\ canonicalBlockHashes' = r.store.canonical
             /\ chainData' = r.store.data
             /\ last' = [op |-> "add_block", block |-> block, result |-> r.result,
                         trace |-> r.trace]
    /\ pc' = "returned"
    /\ UNCHANGED <<config, engine, flatVars, evm, vm, memory>>

Next ==
    pc = "idle" /\
    \E parent \in ParentChoices, number \in 0..MaxBlockNumber, t \in 0..MaxTime,
       gas \in GasChoices, blobGas \in BlobGasChoices, beaconRoot \in OptionOf(BeaconRoots),
       body \in ChainBodies :
        \E root \in RootChoices(Header(parent, number, t, Bob, gas, NoHash, blobGas, beaconRoot), body) :
            AddBlock(Block(Header(parent, number, t, Bob, gas, root, blobGas, beaconRoot), body))

Spec == Init /\ [][Next]_vars

-----------------------------------------------------------------------------
(* Properties of add_block, under Spec *)

Returns(op) == last.op = op
LastHash == compute_block_hash(last.block.header)

\* the gas used by the transactions of a stored block: the cumulative gas of
\* its last stored receipt, 0 for a block without receipts
TotalGasOf(block_hash) ==
    LET rs == {r \in receipts : r[1] = block_hash}
    IN IF rs = {} THEN 0
       ELSE (CHOOSE r \in rs : \A q \in rs : q[2] <= r[2])[3].cumulative_gas_used

\* C1: every block accepted by add_block has header.gas_used equal to the
\* total gas used by its transactions, a block without transactions included
\* (total 0).
C1_AcceptedGasUsedMatches ==
    (Returns("add_block") /\ last.result = "Ok")
        => last.block.header.gas_used = TotalGasOf(LastHash)

\* C2: when add_block does not return Ok, the store is as it was before the
\* call: no header, body, receipt or state written.
C2_RejectionLeavesStore ==
    [][(pc = "idle" /\ last'.op = "add_block" /\ last'.result # "Ok")
          => UNCHANGED storeVars]_vars

\* the total number of blobs carried by the transactions of a block
RECURSIVE TotalBlobs(_)
TotalBlobs(txs) == IF txs = <<>> THEN 0 ELSE Head(txs).blobs + TotalBlobs(Tail(txs))

\* a block of the Cancun fork that passes the parent lookup and the header
\* validation and carries more than 6 blobs
OverBlobCap(block) ==
    LET p == get_block_header_by_hash(TheStore, block.header.parent_hash)
    IN /\ IsSome(p)
       /\ block.header.number = Unwrap(p).number + 1
       /\ block.header.timestamp > Unwrap(p).timestamp
       /\ IsSome(config.cancun_time) /\ Unwrap(config.cancun_time) <= block.header.timestamp
       /\ IsSome(block.header.blob_gas_used) /\ IsSome(block.header.parent_beacon_block_root)
       /\ TotalBlobs(block.body.transactions) > 6

\* C3: a Cancun block whose blob transactions carry more than 6 blobs in
\* total is rejected by block validation with ExceededMaxBlobNumberPerBlock,
\* before any step of the block is executed and with no state change.
C3_OverBlobCapRejectedForBlobNumber ==
    [][(pc = "idle" /\ last'.op = "add_block" /\ OverBlobCap(last'.block))
          => /\ last'.result = "ExceededMaxBlobNumberPerBlock"
             /\ last'.trace = <<>>
             /\ UNCHANGED <<storeVars, evm>>]_vars

\* C9: add_block goes past the parent lookup only if a header is stored under
\* parent_hash and number is the parent's number plus one; in every other
\* case, block number 0 included, it returns ParentNotFound.
C9_ParentNotFoundOtherwise ==
    [][(pc = "idle" /\ last'.op = "add_block")
          => LET header == last'.block.header
                 p == get_block_header_by_hash(TheStore, header.parent_hash)
                 linked == IsSome(p) /\ header.number = Unwrap(p).number + 1
             IN IF linked THEN last'.result # "ParentNotFound"
                ELSE last'.result = "ParentNotFound"]_vars

-----------------------------------------------------------------------------
(* Properties of the executor, under SpecEvm *)

IsPrefix(p, q) == Len(p) <= Len(q) /\ SubSeq(q, 1, Len(p)) = p

TxSteps(block) == [i \in 1..Len(block.body.transactions) |-> TxStep(i)]
WithdrawalsSteps(block) ==
    IF IsSome(block.body.withdrawals) THEN <<WithdrawalsStep>> ELSE <<>>
IsCancun(block) ==
    IsSome(config.cancun_time) /\ Unwrap(config.cancun_time) <= block.header.timestamp

\* the steps of a block in their order, the beacon root call being one of
\* them when the block has a parent beacon block root and is a Cancun block
StepsOf(block) ==
    (IF IsSome(block.header.parent_beacon_block_root) /\ IsCancun(block)
     THEN <<BeaconStep>> ELSE <<>>) \o TxSteps(block) \o WithdrawalsSteps(block)

\* the same, the beacon root call being one of them whenever the block has a
\* parent beacon block root
StepsAsStated(block) ==
    (IF IsSome(block.header.parent_beacon_block_root) THEN <<BeaconStep>> ELSE <<>>)
        \o TxSteps(block) \o WithdrawalsSteps(block)

\* the state left by the steps of a trace, applied one after the other to a
\* fresh state
RECURSIVE Replay(_, _, _, _)
Replay(st, block, trace, i) ==
    IF i > Len(trace) THEN st
    ELSE LET step == trace[i]
             spec == spec_id(config, block.header.timestamp)
             next == CASE step = BeaconStep ->
                            beacon_root_contract_call(st, TheView, block.header, spec).state
                       [] step = WithdrawalsStep ->
                            process_withdrawals(st, TheView, Unwrap(block.body.withdrawals)).state
                       [] OTHER ->
                            execute_tx(st, TheView, block.body.transactions[step[2]],
                                       block.header, spec).state
         IN Replay(next, block, trace, i + 1)

\* the steps performed are the first steps of the block in order, all of
\* them when the block succeeds and not all when it fails, and the state holds
\* the effects of the performed steps and of no other
PerformsInOrder(steps) ==
    /\ IF last.ok THEN last.trace = steps
       ELSE IsPrefix(last.trace, steps) /\ last.trace # steps
    /\ evm = Replay(EmptyEvm, last.block, last.trace, 1)

\* C4 (as the code has it): execute_block performs its steps in a fixed
\* order: the beacon root call (when parent_beacon_block_root is present and
\* the block is a Cancun block) before any transaction, then every
\* transaction in block order, then the withdrawals; the first failing step
\* ends the block, and no later transaction or withdrawal is applied.
C4_StepsInOrder == Returns("execute_block") => PerformsInOrder(StepsOf(last.block))

\* C4 witness: after the beacon root call the only transaction of a block
\* failed, and its withdrawal was not applied.
C4_Witness ==
    /\ Returns("execute_block")
    /\ ~last.ok
    /\ last.trace = <<BeaconStep>>
    /\ Len(last.block.body.transactions) = 1
    /\ IsSome(last.block.body.withdrawals)
    /\ Len(Unwrap(last.block.body.withdrawals)) = 1
    /\ Unwrap(last.block.body.withdrawals)[1].amount > 0
    /\ evm[Unwrap(last.block.body.withdrawals)[1].address] = None

\* C4 as stated: the beacon root call is performed whenever
\* parent_beacon_block_root is present.
C4_StepsInOrderAsStated == Returns("execute_block") => PerformsInOrder(StepsAsStated(last.block))

\* C5: after the beacon root call, the system sender and the coinbase are as
\* they were before it, in the state and in what the state has recorded as
\* changed; the slots written by the beacon roots contract are committed.
C5_SystemAndCoinbaseRestored ==
    Returns("beacon_root_contract_call") =>
        LET h == last.header
            excluded == {SYSTEM_ADDRESS, h.coinbase}
            deployed == InfoOf(last.before, TheView, CONTRACT_ADDRESS).code_hash = BEACON_CODE
        IN /\ \A a \in excluded :
                /\ evm[a] = last.before[a]
                /\ AccountOf(evm, TheView, a) = AccountOf(last.before, TheView, a)
           /\ (last.ok /\ deployed /\ CONTRACT_ADDRESS \notin excluded) =>
                /\ IsSome(evm[CONTRACT_ADDRESS])
                /\ Unwrap(Unwrap(evm[CONTRACT_ADDRESS]).storage[TimestampSlot(h.timestamp)]).present
                      = h.timestamp
                /\ Unwrap(Unwrap(evm[CONTRACT_ADDRESS]).storage[RootSlot(h.timestamp)]).present
                      = Unwrap(h.parent_beacon_block_root)
           /\ ~last.ok => evm = last.before

\* C5 witness: the call succeeded with an existing account as coinbase, and
\* the beacon roots contract has its root slot written.
C5_Witness ==
    /\ Returns("beacon_root_contract_call")
    /\ last.ok
    /\ last.header.coinbase = Alice
    /\ IsSome(evm[CONTRACT_ADDRESS])
    /\ IsSome(Unwrap(evm[CONTRACT_ADDRESS]).storage[RootSlot(last.header.timestamp)])
    /\ evm[Alice] = None /\ evm[SYSTEM_ADDRESS] = None

\* the Gwei withdrawn to an address
RECURSIVE GweiTo(_, _)
GweiTo(ws, a) ==
    IF ws = <<>> THEN 0
    ELSE (IF Head(ws).address = a THEN Head(ws).amount ELSE 0) + GweiTo(Tail(ws), a)

\* C6: process_withdrawals raises the balance of every address by 10^9 wei
\* for each Gwei withdrawn to it, the withdrawals to one address summed, and
\* changes nothing else: an address with no Gwei withdrawn to it is as before.
C6_WithdrawalsCredited ==
    Returns("process_withdrawals") =>
        /\ last.ok
        /\ \A a \in Addresses :
              LET total == GweiTo(last.withdrawals, a)
                  before == InfoOf(last.before, TheView, a)
                  after == InfoOf(evm, TheView, a)
              IN IF total = 0 THEN evm[a] = last.before[a]
                 ELSE /\ after.balance = <<before.balance[1] + total, before.balance[2]>>
                      /\ after.nonce = before.nonce
                      /\ after.code_hash = before.code_hash

\* C6 witness: two withdrawals of a positive amount to one address and none
\* to the others.
C6_Witness ==
    /\ Returns("process_withdrawals")
    /\ Len(last.withdrawals) = 2
    /\ last.withdrawals[1].address = last.withdrawals[2].address
    /\ last.withdrawals[1].amount > 0 /\ last.withdrawals[2].amount > 0
    /\ InfoOf(evm, TheView, last.withdrawals[1].address).balance[1] >= 2

\* C7: the adapter's storage(address, key) returns the zero word when the
\* store holds no value for the slot, and the stored value otherwise.
C7_AbsentSlotReadsZero ==
    Returns("storage") =>
        LET stored == {e \in accountStorage[last.address] : e[1] = last.index}
        IN /\ last.result.ok
           /\ IF stored = {} THEN last.result.value = 0
              ELSE <<last.index, last.result.value>> \in stored

\* C8: after apply_state_transitions, for every account modified by the
\* block: if its final state is empty (or it does not exist any more) the
\* store holds no account info for it, and otherwise the store holds its
\* final balance, nonce and code hash.
C8_StoreHoldsFinalState ==
    Returns("apply_state_transitions") =>
        \A a \in Addresses :
            (IsSome(last.bundle[a]) /\ ~is_not_modified(Unwrap(last.bundle[a]).status)) =>
                LET final == Unwrap(last.bundle[a]).info
                IN IF IsNone(final) \/ IsEmptyInfo(Unwrap(final))
                   THEN accountInfos[a] = None
                   ELSE accountInfos[a] = final

-----------------------------------------------------------------------------
(* Properties of the fork selection, under SpecFork *)

Activated(time, block_timestamp) == IsSome(time) /\ Unwrap(time) <= block_timestamp

\* C10: spec_id returns CANCUN iff a Cancun time is configured and is at most
\* the timestamp; otherwise SHANGHAI iff a Shanghai time is configured and is
\* at most the timestamp; otherwise MERGE.
C10_HighestActivatedFork ==
    Returns("spec_id") =>
        LET cancun == Activated(config.cancun_time, last.timestamp)
            shanghai == Activated(config.shanghai_time, last.timestamp)
        IN /\ (last.result = "CANCUN") <=> cancun
           /\ (last.result = "SHANGHAI") <=> (~cancun /\ shanghai)
           /\ (last.result = "MERGE") <=> (~cancun /\ ~shanghai)

\* C10 witness: a timestamp equal to the Shanghai time and below the Cancun
\* time gave SHANGHAI.
C10_Witness ==
    /\ Returns("spec_id")
    /\ IsSome(config.shanghai_time) /\ Unwrap(config.shanghai_time) = last.timestamp
    /\ IsSome(config.cancun_time) /\ Unwrap(config.cancun_time) > last.timestamp
    /\ last.result = "SHANGHAI"

-----------------------------------------------------------------------------
(* levm: the interpreter VM::execute.  A word is kept in WordBits bits in  *)
(* place of 256; the arithmetic is the one of the code at that width.  A   *)
(* frame's memory is kept as its length in bytes, and its calldata and     *)
(* return data are left out: no instruction of the model reads them.       *)

ByteBits == 2         \* bits of a byte of the interpreter
MaxGasLeft == 20      \* the small gas limits leave up to this much over TX_BASE_COST
MaxWords == 1025      \* no turn is taken with this many words on the running stack
MaxFrames == 1025     \* no turn is taken with this many call frames

\* a word is four limbs (U256 is [u64; 4]); a limb is kept as one byte
WordBits == 4 * ByteBits
WORD == 2 ^ WordBits
WORD_SIZE == 32

\* the opcodes the bytecodes of the model are made of, each the byte the EVM
\* gives it; SSTORE is an opcode that execute() has no arm for
STOP == 0
ADD == 1
DIV == 4
SDIV == 5
MOD == 6
SMOD == 7
ADDMOD == 8
MULMOD == 9
SIGNEXTEND == 11
SHL == 27
SHR == 28
SAR == 29
POP == 80
SSTORE == 85
JUMP == 86
JUMPI == 87
JUMPDEST == 91
MCOPY == 94
PUSH0 == 95
PUSH1 == 96
DUP1 == 128
CALL == 241
RETURN == 243

\* the constants execute() charges and pushes, at the values of the EVM gas
\* schedule; the properties below name them and rest on none of the values
TX_BASE_COST == 21000
gas_cost_ADD == 3
gas_cost_DIV == 5
gas_cost_SDIV == 5
gas_cost_MOD == 5
gas_cost_SMOD == 5
gas_cost_ADDMOD == 8
gas_cost_MULMOD == 8
gas_cost_SIGNEXTEND == 5
gas_cost_SHL == 3
gas_cost_SHR == 3
gas_cost_SAR == 3
gas_cost_JUMP == 8
gas_cost_JUMPI == 10
gas_cost_JUMPDEST == 1
gas_cost_PUSH0 == 2
gas_cost_PUSHN == 3
gas_cost_DUPN == 3
gas_cost_POP == 2
gas_cost_MCOPY_STATIC == 3
gas_cost_MCOPY_DYNAMIC_BASE == 3
SUCCESS_FOR_CALL == 1
REVERT_FOR_CALL == 0
SUCCESS_FOR_RETURN == 1

\* i64::MAX, the gas limit VM::new gives: kept as the largest integer of the
\* checker, which no gas count of the model comes near either
I64_MAX == 2147483647

\* is_negative: the most significant bit of the word
is_negative(value) == value >= 2 ^ (WordBits - 1)
\* !value
Not(value) == WORD - 1 - value
\* U256 + U256: the operator of the uint crate panics on overflow (None)
checked_add(a, b) == IF a + b >= WORD THEN None ELSE Some(a + b)
\* overflowing_add(..).0
wrapping_add(a, b) == (a + b) % WORD
\* negate: two's complement negation, !value + 1
negate(value) == checked_add(Not(value), 1)

\* Memory::resize and Memory::expansion_cost over the length of the data
next_multiple_of_32(n) == ((n + 31) \div 32) * 32
resize(len, offset) == IF next_multiple_of_32(offset) > len THEN next_multiple_of_32(offset) ELSE len
memory_cost_linear(words) == 3 * words
memory_cost(words) == (words * words) \div 512 + 3 * words
expansion_cost(len, memory_byte_size) ==
    IF memory_byte_size <= len THEN 0
    ELSE memory_cost((memory_byte_size + 31) \div 32) - memory_cost((len + 31) \div 32)

\* Account and CallFrame
Account(balance, bytecode) == [balance |-> balance, bytecode |-> bytecode]
CallFrame(gas, msg_sender, callee, bytecode, msg_value) ==
    [gas |-> gas, pc |-> 0, msg_sender |-> msg_sender, callee |-> callee, bytecode |-> bytecode,
     msg_value |-> msg_value, stack |-> <<>>, memory |-> 0,
     return_data_offset |-> None, return_data_size |-> None]
\* CallFrame::new
CallFrame_new(bytecode) == CallFrame(0, 0, 0, bytecode, 0)

\* CallFrame::opcode_at
opcode_at(frame, offset) ==
    IF offset < Len(frame.bytecode) THEN Some(frame.bytecode[offset + 1]) ELSE None

\* CallFrame::valid_jump
valid_jump(frame, jump_address) ==
    IsSome(opcode_at(frame, jump_address)) /\ Unwrap(opcode_at(frame, jump_address)) = JUMPDEST

\* the stack of a frame, a Vec with its top at the end
Top(frame, n) == frame.stack[Len(frame.stack) + 1 - n]
Popped(frame, n) == [frame EXCEPT !.stack = SubSeq(@, 1, Len(@) - n)]
Pushed(frame, value) == [frame EXCEPT !.stack = Append(@, value)]

\* VM::new
VM_new(bytecode, address, balance) ==
    [call_frames |-> <<CallFrame_new(bytecode)>>,
     accounts |-> (address :> Account(balance, bytecode)),
     gas_limit |-> I64_MAX,
     consumed_gas |-> TX_BASE_COST,
     current |-> None]

\* VM::get_account_bytecode and VM::balance
get_account_bytecode(v, address) ==
    IF address \in DOMAIN v.accounts THEN v.accounts[address].bytecode ELSE <<>>
balance(v, address) ==
    IF address \in DOMAIN v.accounts THEN v.accounts[address].balance ELSE 0

\* what one turn of the loop of execute() comes to: the loop goes on, the
\* loop is left with break (the two lines after the loop included), or the
\* thread panics
Ran(v, status, reason) == [vm |-> v, status |-> status, reason |-> reason]
Continue(v, frame, cost) ==
    Ran([v EXCEPT !.current = Some(frame), !.consumed_gas = @ + cost], "running", "Continue")
Break(v, frame, reason) ==
    Ran([v EXCEPT !.call_frames = Append(@, frame), !.current = None], "returned", reason)
Panic(v, reason) == Ran(v, "panicked", reason)

\* tx_env.consumed_gas + cost > tx_env.gas_limit.  execute() counts gas in
\* tx_env, a clone of the VM, and copies tx_env.consumed_gas back after the
\* loop: consumed_gas of the model is the count of tx_env while running.
out_of_gas(v, cost) == v.consumed_gas + cost > v.gas_limit

\* the arms of the match of execute(), frame the running frame after
\* next_opcode has moved its pc past the opcode

\* Opcode::ADD
op_add(v, frame) ==
    IF out_of_gas(v, gas_cost_ADD) THEN Break(v, frame, "OutOfGas")
    ELSE IF Len(frame.stack) < 2 THEN Panic(v, "StackUnderflow")
    ELSE Continue(v, Pushed(Popped(frame, 2), wrapping_add(Top(frame, 1), Top(frame, 2))),
                  gas_cost_ADD)

\* Opcode::SDIV, the quotient negated when the signs differ
sdiv_push(v, frame, quotient) ==
    IF IsNone(quotient) THEN Panic(v, "ArithmeticOverflow")
    ELSE Continue(v, Pushed(frame, Unwrap(quotient)), gas_cost_SDIV)
sdiv_quotient(v, frame, dividend, divisor, quotient_is_negative) ==
    IF IsNone(dividend) \/ IsNone(divisor) THEN Panic(v, "ArithmeticOverflow")
    ELSE sdiv_push(v, frame,
                   IF quotient_is_negative THEN negate(Unwrap(dividend) \div Unwrap(divisor))
                   ELSE Some(Unwrap(dividend) \div Unwrap(divisor)))
sdiv_words(v, frame, dividend, divisor) ==
    IF divisor = 0 THEN Continue(v, Pushed(frame, 0), 0)
    ELSE sdiv_quotient(v, frame,
                       IF is_negative(dividend) THEN negate(dividend) ELSE Some(dividend),
                       IF is_negative(divisor) THEN negate(divisor) ELSE Some(divisor),
                       is_negative(dividend) # is_negative(divisor))
op_sdiv(v, frame) ==
    IF out_of_gas(v, gas_cost_SDIV) THEN Break(v, frame, "OutOfGas")
    ELSE IF Len(frame.stack) < 2 THEN Panic(v, "StackUnderflow")
    ELSE sdiv_words(v, Popped(frame, 2), Top(frame, 1), Top(frame, 2))

\* Opcode::DIV
op_div_swapped(v, frame) ==
    IF out_of_gas(v, gas_cost_DIV) THEN Break(v, frame, "OutOfGas")
    ELSE IF Len(frame.stack) < 2 THEN Panic(v, "StackUnderflow")
    ELSE IF Top(frame, 1) = 0 THEN Continue(v, Pushed(Popped(frame, 2), 0), 0)
    ELSE Continue(v, Pushed(Popped(frame, 2), Top(frame, 2) \div Top(frame, 1)), gas_cost_DIV)
op_div(v, frame) ==
    IF out_of_gas(v, gas_cost_DIV) THEN Break(v, frame, "OutOfGas")
    ELSE IF Len(frame.stack) < 2 THEN Panic(v, "StackUnderflow")
    ELSE IF Top(frame, 2) = 0 THEN Continue(v, Pushed(Popped(frame, 2), 0), 0)
    ELSE Continue(v, Pushed(Popped(frame, 2), Top(frame, 1) \div Top(frame, 2)), gas_cost_DIV)

\* Opcode::MOD
op_mod(v, frame) ==
    IF out_of_gas(v, gas_cost_MOD) THEN Break(v, frame, "OutOfGas")
    ELSE IF Len(frame.stack) < 2 THEN Panic(v, "StackUnderflow")
    ELSE IF Top(frame, 2) = 0 THEN Continue(v, Pushed(Popped(frame, 2), 0), 0)
    ELSE Continue(v, Pushed(Popped(frame, 2), Top(frame, 1) % Top(frame, 2)), gas_cost_MOD)

\* Opcode::SMOD: the remainder is negated when the signs differ, and the
\* charge is gas_cost::MOD
smod_push(v, frame, remainder) ==
    IF IsNone(remainder) THEN Panic(v, "ArithmeticOverflow")
    ELSE Continue(v, Pushed(frame, Unwrap(remainder)), gas_cost_MOD)
smod_remainder(v, frame, dividend, divisor, remainder_is_negative) ==
    IF IsNone(dividend) \/ IsNone(divisor) THEN Panic(v, "ArithmeticOverflow")
    ELSE smod_push(v, frame,
                   IF remainder_is_negative THEN negate(Unwrap(dividend) % Unwrap(divisor))
                   ELSE Some(Unwrap(dividend) % Unwrap(divisor)))
smod_words(v, frame, dividend, divisor) ==
    IF divisor = 0 THEN Continue(v, Pushed(frame, 0), 0)
    ELSE smod_remainder(v, frame,
                        IF is_negative(dividend) THEN negate(dividend) ELSE Some(dividend),
                        IF is_negative(divisor) THEN negate(divisor) ELSE Some(divisor),
                        is_negative(dividend) # is_negative(divisor))
op_smod(v, frame) ==
    IF out_of_gas(v, gas_cost_SMOD) THEN Break(v, frame, "OutOfGas")
    ELSE IF Len(frame.stack) < 2 THEN Panic(v, "StackUnderflow")
    ELSE smod_words(v, Popped(frame, 2), Top(frame, 1), Top(frame, 2))

\* overflowing_sub(..).0
wrapping_sub(a, b) == (a + WORD - b) % WORD

\* Opcode::ADDMOD: the sum is taken in a word, overflowing_add
addmod_remainder(remainder, divisor, overflow) ==
    IF overflow \/ remainder > divisor THEN wrapping_sub(remainder, divisor) ELSE remainder
addmod(augend, addend, divisor) ==
    addmod_remainder(wrapping_add(augend, addend) % divisor, divisor, augend + addend >= WORD)
op_addmod(v, frame) ==
    IF out_of_gas(v, gas_cost_ADDMOD) THEN Break(v, frame, "OutOfGas")
    ELSE IF Len(frame.stack) < 3 THEN Panic(v, "StackUnderflow")
    ELSE IF Top(frame, 3) = 0 THEN Continue(v, Pushed(Popped(frame, 3), 0), 0)
    ELSE Continue(v, Pushed(Popped(frame, 3), addmod(Top(frame, 1), Top(frame, 2), Top(frame, 3))),
                  gas_cost_ADDMOD)

\* U512: twice the bits of a word, eight limbs, the least significant first
DWORD == WORD * WORD
LIMB == 2 ^ ByteBits
RECURSIVE limbs(_, _)
limbs(n, count) == IF count = 0 THEN <<>> ELSE <<n % LIMB>> \o limbs(n \div LIMB, count - 1)
\* U256::from(&[u8]): the bytes read most significant first
RECURSIVE from_big_endian(_)
from_big_endian(bytes) ==
    IF bytes = <<>> THEN 0
    ELSE from_big_endian(SubSeq(bytes, 1, Len(bytes) - 1)) * LIMB + bytes[Len(bytes)]
Reversed(seq) == [i \in 1..Len(seq) |-> seq[Len(seq) + 1 - i]]
\* remainder.0.iter().take(4), to_le_bytes of each, reverse, U256::from
to_word_keeping_order(remainder) == from_big_endian(SubSeq(limbs(remainder, 8), 1, 4))
to_word(remainder) == from_big_endian(Reversed(SubSeq(limbs(remainder, 8), 1, 4)))

\* Opcode::MULMOD: the product is taken in U512
mulmod_remainder(remainder, divisor, overflow) ==
    IF overflow \/ remainder > divisor THEN (remainder + DWORD - divisor) % DWORD ELSE remainder
mulmod(multiplicand, multiplier, divisor) ==
    to_word(mulmod_remainder(((multiplicand * multiplier) % DWORD) % divisor, divisor,
                             multiplicand * multiplier >= DWORD))
op_mulmod(v, frame) ==
    IF out_of_gas(v, gas_cost_MULMOD) THEN Break(v, frame, "OutOfGas")
    ELSE IF Len(frame.stack) < 3 THEN Panic(v, "StackUnderflow")
    ELSE IF Top(frame, 3) = 0 THEN Continue(v, Pushed(Popped(frame, 3), 0), 0)
    ELSE Continue(v, Pushed(Popped(frame, 3), mulmod(Top(frame, 1), Top(frame, 2), Top(frame, 3))),
                  gas_cost_MULMOD)

\* the operators of U256 on bits: <<, >>, |, &, bit(i); a shift by the width
\* of the word or more leaves no bit
shl(value, shift) == IF shift >= WordBits THEN 0 ELSE (value * 2 ^ shift) % WORD
shr(value, shift) == IF shift >= WordBits THEN 0 ELSE value \div 2 ^ shift
bit(value, index) == (value \div 2 ^ index) % 2 = 1
RECURSIVE bit_or(_, _)
bit_or(a, b) ==
    IF a = 0 THEN b ELSE IF b = 0 THEN a
    ELSE (IF a % 2 = 1 \/ b % 2 = 1 THEN 1 ELSE 0) + 2 * bit_or(a \div 2, b \div 2)
RECURSIVE bit_and(_, _)
bit_and(a, b) ==
    IF a = 0 \/ b = 0 THEN 0
    ELSE (IF a % 2 = 1 /\ b % 2 = 1 THEN 1 ELSE 0) + 2 * bit_and(a \div 2, b \div 2)

\* Opcode::SIGNEXTEND: bits_per_byte is ByteBits, the sign bit of a byte its
\* last, max_byte_size the last byte of the word
signextend_masked(value_to_extend, sign_bit_index, sign_bit_mask) ==
    IF bit(value_to_extend, sign_bit_index)
    THEN bit_or(value_to_extend, Not(sign_bit_mask))
    ELSE bit_and(value_to_extend, sign_bit_mask)
signextend_at(value_to_extend, sign_bit_index) ==
    signextend_masked(value_to_extend, sign_bit_index, shl(1, sign_bit_index) - 1)
signextend_clamped_early(byte_size, value_to_extend) ==
    signextend_at(value_to_extend,
                  ByteBits * (IF byte_size < 2 THEN byte_size ELSE 2) + (ByteBits - 1))
signextend(byte_size, value_to_extend) ==
    signextend_at(value_to_extend,
                  ByteBits * (IF byte_size < 3 THEN byte_size ELSE 3) + (ByteBits - 1))
op_signextend(v, frame) ==
    IF out_of_gas(v, gas_cost_SIGNEXTEND) THEN Break(v, frame, "OutOfGas")
    ELSE IF Len(frame.stack) < 2 THEN Panic(v, "StackUnderflow")
    ELSE Continue(v, Pushed(Popped(frame, 2), signextend(Top(frame, 1), Top(frame, 2))),
                  gas_cost_SIGNEXTEND)

\* Opcode::SHL and Opcode::SHR
op_shl(v, frame) ==
    IF out_of_gas(v, gas_cost_SHL) THEN Break(v, frame, "OutOfGas")
    ELSE IF Len(frame.stack) < 2 THEN Panic(v, "StackUnderflow")
    ELSE Continue(v, Pushed(Popped(frame, 2),
                            IF Top(frame, 1) < WordBits THEN shl(Top(frame, 2), Top(frame, 1)) ELSE 0),
                  gas_cost_SHL)
op_shr(v, frame) ==
    IF out_of_gas(v, gas_cost_SHR) THEN Break(v, frame, "OutOfGas")
    ELSE IF Len(frame.stack) < 2 THEN Panic(v, "StackUnderflow")
    ELSE Continue(v, Pushed(Popped(frame, 2),
                            IF Top(frame, 1) < WordBits THEN shr(Top(frame, 2), Top(frame, 1)) ELSE 0),
                  gas_cost_SHR)

\* arithmetic_shift_right
arithmetic_shift_right_unfilled(value, shift) == shr(value, shift)
arithmetic_shift_right(value, shift) ==
    IF bit(value, WordBits - 1)
    THEN bit_or(shr(value, shift), shl(WORD - 1, WordBits - shift))
    ELSE shr(value, shift)
\* Opcode::SAR
sar(value, shift) ==
    IF shift < WordBits THEN arithmetic_shift_right(value, shift)
    ELSE IF bit(value, WordBits - 1) THEN WORD - 1
    ELSE 0
op_sar(v, frame) ==
    IF out_of_gas(v, gas_cost_SAR) THEN Break(v, frame, "OutOfGas")
    ELSE IF Len(frame.stack) < 2 THEN Panic(v, "StackUnderflow")
    ELSE Continue(v, Pushed(Popped(frame, 2), sar(Top(frame, 2), Top(frame, 1))), gas_cost_SAR)

\* CallFrame::jump
jump(v, frame, jump_address, cost) ==
    IF ~valid_jump(frame, jump_address) THEN Panic(v, "InvalidJump")
    ELSE Continue(v, [frame EXCEPT !.pc = jump_address], cost)

\* Opcode::JUMP
op_jump(v, frame) ==
    IF out_of_gas(v, gas_cost_JUMP) THEN Break(v, frame, "OutOfGas")
    ELSE IF Len(frame.stack) < 1 THEN Panic(v, "StackUnderflow")
    ELSE jump(v, Popped(frame, 1), Top(frame, 1), gas_cost_JUMP)

\* Opcode::JUMPI
op_jumpi(v, frame) ==
    IF out_of_gas(v, gas_cost_JUMPI) THEN Break(v, frame, "OutOfGas")
    ELSE IF Len(frame.stack) < 2 THEN Panic(v, "StackUnderflow")
    ELSE IF Top(frame, 2) # 0 THEN jump(v, Popped(frame, 2), Top(frame, 1), gas_cost_JUMPI)
    ELSE Continue(v, Popped(frame, 2), gas_cost_JUMPI)

\* Opcode::JUMPDEST
op_jumpdest(v, frame) ==
    IF out_of_gas(v, gas_cost_JUMPDEST) THEN Break(v, frame, "OutOfGas")
    ELSE Continue(v, frame, gas_cost_JUMPDEST)

\* Opcode::PUSH0
op_push0(v, frame) ==
    IF out_of_gas(v, gas_cost_PUSH0) THEN Break(v, frame, "OutOfGas")
    ELSE Continue(v, Pushed(frame, 0), gas_cost_PUSH0)

\* PUSHn for PUSH1: the byte after the opcode is pushed and the pc moved
\* past it
op_push1(v, frame) ==
    IF out_of_gas(v, gas_cost_PUSHN) THEN Break(v, frame, "OutOfGas")
    ELSE IF frame.pc + 1 > Len(frame.bytecode) THEN Panic(v, "InvalidBytecode")
    ELSE Continue(v, [Pushed(frame, frame.bytecode[frame.pc + 1]) EXCEPT !.pc = @ + 1],
                  gas_cost_PUSHN)

\* DUPn for DUP1
op_dup1(v, frame) ==
    IF out_of_gas(v, gas_cost_DUPN) THEN Break(v, frame, "OutOfGas")
    ELSE IF Len(frame.stack) < 1 THEN Panic(v, "StackUnderflow")
    ELSE Continue(v, Pushed(frame, Top(frame, 1)), gas_cost_DUPN)

\* Opcode::POP
op_pop(v, frame) ==
    IF out_of_gas(v, gas_cost_POP) THEN Break(v, frame, "OutOfGas")
    ELSE IF Len(frame.stack) < 1 THEN Panic(v, "StackUnderflow")
    ELSE Continue(v, Popped(frame, 1), gas_cost_POP)

\* Opcode::MCOPY
Max(a, b) == IF a >= b THEN a ELSE b
mcopy(v, frame, dest_offset, src_offset, size) ==
    IF size = 0 THEN Continue(v, frame, 0)
    ELSE Continue(v, [frame EXCEPT !.memory = resize(@, Max(src_offset + size, dest_offset + size))],
                  gas_cost_MCOPY_STATIC
                    + gas_cost_MCOPY_DYNAMIC_BASE * ((size + WORD_SIZE - 1) \div WORD_SIZE)
                    + expansion_cost(frame.memory, Max(src_offset + size, dest_offset + size)))
op_mcopy(v, frame) ==
    IF Len(frame.stack) < 3 THEN Panic(v, "StackUnderflow")
    ELSE mcopy(v, Popped(frame, 3), Top(frame, 1), Top(frame, 2), Top(frame, 3))

\* Opcode::CALL: gas, address, value, args_offset, args_size, ret_offset and
\* ret_size are popped in this order
call(v, frame, gas, address, value, args_offset, args_size, ret_offset, ret_size) ==
    IF balance(v, frame.msg_sender) < value
    THEN Continue(v, Pushed(frame, REVERT_FOR_CALL), 0)
    ELSE IF get_account_bytecode(v, address) = <<>>
    THEN Continue(v, Pushed(frame, SUCCESS_FOR_CALL), 0)
    ELSE Continue([v EXCEPT !.call_frames =
                      Append(@, [frame EXCEPT !.memory = resize(@, args_offset + args_size),
                                              !.return_data_offset = Some(ret_offset),
                                              !.return_data_size = Some(ret_size)])],
                  CallFrame(gas, frame.msg_sender, address, get_account_bytecode(v, address), value),
                  0)
op_call(v, frame) ==
    IF Len(frame.stack) < 7 THEN Panic(v, "StackUnderflow")
    ELSE call(v, Popped(frame, 7), Top(frame, 1), Top(frame, 2), Top(frame, 3), Top(frame, 4),
              Top(frame, 5), Top(frame, 6), Top(frame, 7))

\* Opcode::RETURN
return_to(parent_call_frame, size) ==
    [Pushed(parent_call_frame, SUCCESS_FOR_RETURN)
        EXCEPT !.memory = IF IsSome(parent_call_frame.return_data_offset)
                             /\ IsSome(parent_call_frame.return_data_size)
                          THEN resize(@, Unwrap(parent_call_frame.return_data_offset) + size)
                          ELSE @,
               !.return_data_offset = None,
               !.return_data_size = None]
return(v, frame, offset, size) ==
    IF v.call_frames # <<>>
    THEN Continue([v EXCEPT !.call_frames = SubSeq(@, 1, Len(@) - 1)],
                  return_to(v.call_frames[Len(v.call_frames)], size), 0)
    ELSE Break(v, [Pushed(frame, SUCCESS_FOR_RETURN) EXCEPT !.memory = resize(@, offset + size)],
               "Return")
op_return(v, frame) ==
    IF Len(frame.stack) < 2 THEN Panic(v, "StackUnderflow")
    ELSE return(v, Popped(frame, 2), Top(frame, 1), Top(frame, 2))

\* the match of execute() on next_opcode().unwrap(): running past the end of
\* the code unwraps None, an opcode with no arm is unimplemented!()
dispatch(v, frame, opcode) ==
    IF IsNone(opcode) THEN Panic(v, "EndOfCode")
    ELSE CASE Unwrap(opcode) = STOP -> Break(v, frame, "Stop")
           [] Unwrap(opcode) = ADD -> op_add(v, frame)
           [] Unwrap(opcode) = DIV -> op_div(v, frame)
           [] Unwrap(opcode) = SDIV -> op_sdiv(v, frame)
           [] Unwrap(opcode) = MOD -> op_mod(v, frame)
           [] Unwrap(opcode) = SMOD -> op_smod(v, frame)
           [] Unwrap(opcode) = ADDMOD -> op_addmod(v, frame)
           [] Unwrap(opcode) = MULMOD -> op_mulmod(v, frame)
           [] Unwrap(opcode) = SIGNEXTEND -> op_signextend(v, frame)
           [] Unwrap(opcode) = SHL -> op_shl(v, frame)
           [] Unwrap(opcode) = SHR -> op_shr(v, frame)
           [] Unwrap(opcode) = SAR -> op_sar(v, frame)
           [] Unwrap(opcode) = JUMP -> op_jump(v, frame)
           [] Unwrap(opcode) = JUMPI -> op_jumpi(v, frame)
           [] Unwrap(opcode) = JUMPDEST -> op_jumpdest(v, frame)
           [] Unwrap(opcode) = PUSH0 -> op_push0(v, frame)
           [] Unwrap(opcode) = PUSH1 -> op_push1(v, frame)
           [] Unwrap(opcode) = DUP1 -> op_dup1(v, frame)
           [] Unwrap(opcode) = POP -> op_pop(v, frame)
           [] Unwrap(opcode) = MCOPY -> op_mcopy(v, frame)
           [] Unwrap(opcode) = CALL -> op_call(v, frame)
           [] Unwrap(opcode) = RETURN -> op_return(v, frame)
           [] OTHER -> Panic(v, "Unimplemented")

\* CallFrame::next_opcode, then the match
next_opcode(frame) == [frame EXCEPT !.pc = @ + 1]
execute_turn(v) ==
    dispatch(v, next_opcode(Unwrap(v.current)), opcode_at(Unwrap(v.current), Unwrap(v.current).pc))

-----------------------------------------------------------------------------
(* SpecVm: one VM::execute.  The VM is built by VM::new for a bytecode at  *)
(* address 1, a second account is added at address 2 with add_account, and *)
(* the gas limit is the one of VM::new or a small one.                     *)

\* the words given to SDIV: the least and the greatest of each sign
Operands ==
    {0, 1, 2, 3, 2 ^ (WordBits - 1) - 1, 2 ^ (WordBits - 1), 2 ^ (WordBits - 1) + 1,
     WORD - 2, WORD - 1}

CallProgram(address, gas, value) ==
    <<PUSH0, PUSH0, PUSH0, PUSH0, PUSH1, value, PUSH1, address, PUSH1, gas, CALL, STOP>>

\* the moduli given to ADDMOD and MULMOD, the shifts given to SHL, SHR and
\* SAR, and the words and byte indices given to SIGNEXTEND
Moduli == {0, 1, 2, 3, 2 ^ (WordBits - 1) - 1, 2 ^ (WordBits - 1), WORD - 1}
Shifts == 0..(WordBits + 1) \cup {WORD - 1}
Extended == Operands \cup {2 ^ ByteBits, 2 ^ (2 * ByteBits + 1), WORD \div 3, 2 * (WORD \div 3)}
ByteSizes == 0..5 \cup {WORD - 1}

Programs ==
    {<<PUSH1, b, PUSH1, a, op, STOP>> : a \in Operands, b \in Operands, op \in {DIV, SDIV, MOD, SMOD}}
    \cup {<<PUSH1, n, PUSH1, b, PUSH1, a, op, STOP>> :
              a \in Operands, b \in Operands, n \in Moduli, op \in {ADDMOD, MULMOD}}
    \cup {<<PUSH1, value, PUSH1, shift, op, STOP>> :
              value \in Operands, shift \in Shifts, op \in {SHL, SHR, SAR}}
    \cup {<<PUSH1, value, PUSH1, b, SIGNEXTEND, STOP>> : value \in Extended, b \in ByteSizes}
    \cup {CallProgram(address, gas, value) : address \in 1..3, gas \in {0, WORD - 1}, value \in {0, 1}}
    \cup {<<PUSH1, WORD - 1, PUSH1, 1, ADD, STOP>>,
          <<ADD>>,
          <<PUSH0>>,
          <<SSTORE>>,
          <<PUSH1>>,
          <<DUP1>>,
          <<PUSH0, DUP1, POP, POP, POP>>,
          <<PUSH0, PUSH0, RETURN>>,
          <<PUSH1, 1, JUMP>>,
          <<PUSH1, 3, JUMP, JUMPDEST, STOP>>,
          <<PUSH1, 4, JUMP, PUSH1, JUMPDEST, STOP>>,
          <<PUSH1, 0, PUSH1, 6, JUMPI, STOP, JUMPDEST, STOP>>,
          <<PUSH1, 1, PUSH1, 6, JUMPI, STOP, JUMPDEST, STOP>>,
          <<PUSH1, 1, PUSH1, 5, JUMPI, STOP, JUMPDEST, STOP>>,
          <<JUMPDEST, PUSH0, PUSH0, JUMP>>,
          <<PUSH1, WORD_SIZE, PUSH0, PUSH0, MCOPY, STOP>>,
          <<PUSH0, PUSH0, PUSH0, MCOPY, STOP>>}

Callees ==
    {<<STOP>>, <<PUSH0, PUSH0, RETURN>>, <<JUMPDEST, JUMPDEST, STOP>>,
     <<PUSH1, WORD_SIZE + 1, PUSH0, RETURN>>}

\* gas_limit is i64::MAX in VM::new ("initialized like this for testing").
\* execute() reads gas only as consumed_gas + cost > gas_limit, so a small
\* limit stands for any VM with that much gas left over consumed_gas.
GasLimits == {TX_BASE_COST + g : g \in {0, MaxGasLeft \div 2, MaxGasLeft}} \cup {I64_MAX}

\* VM::add_account
add_account(v, address, account) ==
    [v EXCEPT !.accounts = [a \in DOMAIN @ \cup {address} |-> IF a = address THEN account ELSE @[a]]]

InitVm ==
    /\ config = ChainConfig(None, None)
    /\ engine = NoEngine
    /\ accountInfos = Accounts(None, None)
    /\ accountStorage = NoStorage
    /\ headers = NoBlocks /\ bodies = NoBlocks /\ receipts = NoBlocks /\ stateTries = NoBlocks
    /\ evm = EmptyEvm
    /\ \E bytecode \in Programs, callee \in Callees, limit \in GasLimits :
          /\ (CALL \in {bytecode[i] : i \in DOMAIN bytecode}) \/ callee = <<STOP>>
          /\ vm = [add_account(VM_new(bytecode, 1, 0), 2, Account(0, callee))
                      EXCEPT !.gas_limit = limit]
    /\ memory = <<>>
    /\ canonicalBlockHashes = {}
    /\ chainData = NoChainData
    /\ pc = "idle"
    /\ last = NoCall

\* the gas consumed when each frame under the running one was left by CALL
Entries(entries, v, ran) ==
    IF ran.status # "running" THEN entries
    ELSE IF Len(ran.vm.call_frames) > Len(v.call_frames) THEN Append(entries, v.consumed_gas)
    ELSE IF Len(ran.vm.call_frames) < Len(v.call_frames) THEN SubSeq(entries, 1, Len(entries) - 1)
    ELSE entries

\* execute(), up to the loop: the running frame is popped off call_frames
Execute ==
    /\ pc = "idle"
    /\ vm' = [vm EXCEPT !.call_frames = SubSeq(@, 1, Len(@) - 1),
                        !.current = Some(vm.call_frames[Len(vm.call_frames)])]
    /\ pc' = "running"
    /\ last' = [op |-> "execute", opcode |-> None, reason |-> "Begin", entries |-> <<>>]
    /\ UNCHANGED <<config, engine, storeVars, evm, memory>>

\* one turn of the loop of execute(); the turn that leaves the loop takes
\* the two lines after it with it
Turn ==
    /\ pc = "running"
    /\ Len(Unwrap(vm.current).stack) < MaxWords
    /\ Len(vm.call_frames) + 1 < MaxFrames
    /\ \E ran \in {execute_turn(vm)} :
          /\ vm' = ran.vm
          /\ pc' = ran.status
          /\ last' = [op |-> "execute",
                      opcode |-> opcode_at(Unwrap(vm.current), Unwrap(vm.current).pc),
                      reason |-> ran.reason,
                      entries |-> Entries(last.entries, vm, ran)]
    /\ UNCHANGED <<config, engine, storeVars, evm, memory>>

NextVm == Execute \/ Turn

SpecVm == InitVm /\ [][NextVm]_vars

-----------------------------------------------------------------------------
(* SpecMemory: one Memory, from Memory::new, under the memory accesses of   *)
(* MLOAD, MSTORE, MSTORE8, KECCAK256 and MCOPY and under direct calls of    *)
(* store_bytes and copy.  The data is kept byte by byte.                    *)

MaxMemory == 768      \* no access ends past this many bytes
MaxAccesses == 2      \* accesses made on one Memory

Zeros(n) == [i \in 1..n |-> 0]
\* Memory::resize on the data: zero bytes up to the next multiple of 32
resize_data_always(data, offset) ==
    IF next_multiple_of_32(offset) >= Len(data)
    THEN data \o Zeros(next_multiple_of_32(offset) - Len(data))
    ELSE SubSeq(data, 1, next_multiple_of_32(offset))
resize_data(data, offset) == data \o Zeros(resize(Len(data), offset) - Len(data))
\* the bytes of data from offset, size of them
Range(data, offset, size) == SubSeq(data, offset + 1, offset + size)
\* splice(offset..offset + len, value), and copy_from_slice
Spliced(data, offset, value) ==
    [i \in 1..Len(data) |->
        IF i > offset /\ i <= offset + Len(value) THEN value[i - offset] ELSE data[i]]

\* Memory::load, Memory::load_range: the data after the call (the bytes
\* returned are Range of it)
load(data, offset) == resize_data(data, offset + 32)
load_range(data, offset, size) == resize_data(data, offset + size)
\* Memory::store_bytes
store_bytes(data, offset, value) == Spliced(resize_data(data, offset + Len(value)), offset, value)
\* Memory::copy
copy_onto(data, src_offset, dest_offset, size) ==
    Spliced(data, dest_offset, Range(data, src_offset, size))
copy(data, src_offset, dest_offset, size) ==
    copy_onto(resize_data(data, Max(src_offset + size, dest_offset + size)),
              src_offset, dest_offset, size)

\* value.to_big_endian(&mut value_bytes) for a value of one byte
to_big_endian(value) == Zeros(WORD_SIZE - 1) \o <<value>>

Offsets == {0, 1, 33, MaxMemory - 33}
Sources == {0, 33}
Sizes == {0, 1, 33}
ByteValues == {1, 255}

InitMemory ==
    /\ config = ChainConfig(None, None)
    /\ engine = NoEngine
    /\ accountInfos = Accounts(None, None)
    /\ accountStorage = NoStorage
    /\ headers = NoBlocks /\ bodies = NoBlocks /\ receipts = NoBlocks /\ stateTries = NoBlocks
    /\ evm = EmptyEvm
    /\ vm = NoVm
    /\ memory = <<>>
    /\ canonicalBlockHashes = {}
    /\ chainData = NoChainData
    /\ pc = "idle"
    /\ last = [op |-> "new", accesses |-> 0, end |-> 0, written |-> {}, cost |-> 0,
               charged |-> 0, instructions |-> TRUE]

\* an access that ends at offset end can be made
CanAccess(end) == last.accesses < MaxAccesses /\ end <= MaxMemory
\* the record of an access: the offset it ends at, the bytes it writes, and,
\* for an instruction, the expansion cost it has computed
Accessed(op, end, written, cost, instruction) ==
    [op |-> op, accesses |-> last.accesses + 1, end |-> end, written |-> written,
     cost |-> cost, charged |-> last.charged + cost,
     instructions |-> last.instructions /\ instruction]

\* Opcode::MLOAD
Mload ==
    \E offset \in Offsets :
        /\ CanAccess(offset + WORD_SIZE)
        /\ memory' = load(memory, offset)
        /\ last' = Accessed("MLOAD", offset + WORD_SIZE, {},
                            expansion_cost(Len(memory), offset + WORD_SIZE), TRUE)
        /\ UNCHANGED <<config, engine, storeVars, evm, vm, pc>>

\* Opcode::MSTORE
Mstore ==
    \E offset \in Offsets, value \in ByteValues :
        /\ CanAccess(offset + WORD_SIZE)
        /\ memory' = store_bytes(memory, offset, to_big_endian(value))
        /\ last' = Accessed("MSTORE", offset + WORD_SIZE, offset..(offset + WORD_SIZE - 1),
                            expansion_cost(Len(memory), offset + WORD_SIZE), TRUE)
        /\ UNCHANGED <<config, engine, storeVars, evm, vm, pc>>

\* Opcode::MSTORE8
Mstore8 ==
    \E offset \in Offsets, value \in ByteValues :
        /\ CanAccess(offset + 1)
        /\ memory' = store_bytes(memory, offset, SubSeq(to_big_endian(value), WORD_SIZE, WORD_SIZE))
        /\ last' = Accessed("MSTORE8", offset + 1, {offset},
                            expansion_cost(Len(memory), offset + 1), TRUE)
        /\ UNCHANGED <<config, engine, storeVars, evm, vm, pc>>

\* Opcode::KECCAK256
Keccak256 ==
    \E offset \in Offsets, size \in Sizes :
        /\ CanAccess(offset + size)
        /\ memory' = load_range(memory, offset, size)
        /\ last' = Accessed("KECCAK256", offset + size, {},
                            expansion_cost(Len(memory), offset + size), TRUE)
        /\ UNCHANGED <<config, engine, storeVars, evm, vm, pc>>

\* Opcode::MCOPY: nothing is done for size 0
Mcopy ==
    \E dest_offset \in Offsets \ Sources, src_offset \in Sources, size \in Sizes \ {0} :
        /\ CanAccess(Max(src_offset + size, dest_offset + size))
        /\ memory' = copy(memory, src_offset, dest_offset, size)
        /\ last' = Accessed("MCOPY", Max(src_offset + size, dest_offset + size),
                            dest_offset..(dest_offset + size - 1),
                            expansion_cost(Len(memory), Max(src_offset + size, dest_offset + size)),
                            TRUE)
        /\ UNCHANGED <<config, engine, storeVars, evm, vm, pc>>

\* Memory::store_bytes and Memory::copy called with any bytes and any size
StoreBytes ==
    \E offset \in Offsets, value \in {<<>>, <<1, 255>>} :
        /\ CanAccess(offset + Len(value))
        /\ memory' = store_bytes(memory, offset, value)
        /\ last' = Accessed("store_bytes", offset + Len(value),
                            offset..(offset + Len(value) - 1), 0, FALSE)
        /\ UNCHANGED <<config, engine, storeVars, evm, vm, pc>>
Copy ==
    \E dest_offset \in Offsets \ Sources, src_offset \in Sources :
        /\ CanAccess(Max(src_offset, dest_offset))
        /\ memory' = copy(memory, src_offset, dest_offset, 0)
        /\ last' = Accessed("copy", Max(src_offset, dest_offset), {}, 0, FALSE)
        /\ UNCHANGED <<config, engine, storeVars, evm, vm, pc>>

NextMemory == Mload \/ Mstore \/ Mstore8 \/ Keccak256 \/ Mcopy \/ StoreBytes \/ Copy

SpecMemory == InitMemory /\ [][NextMemory]_vars

-----------------------------------------------------------------------------
(* SpecForkChoice: new_head on a store that holds a tree of blocks.  The     *)
(* headers of the model are post-merge headers: their difficulty is zero.   *)

MaxHeight == 2     \* blocks of the chain stored over the genesis block
MaxSide == 1       \* blocks of the side chain that forks from the genesis block

\* the tables new_head reads and writes
ForkStore(hs, bs, canonical, data) ==
    [headers |-> hs, bodies |-> bs, canonical |-> canonical, data |-> data]

\* a table that keeps the entry a number already has
set_canonical_block_if_absent(store, number, hash) ==
    IF \E e \in store.canonical : e[1] = number THEN store
    ELSE [store EXCEPT !.canonical = @ \cup {<<number, hash>>}]

\* Store::set_canonical_block with the write of the engine: the entry of the
\* number is replaced
set_canonical_block(store, number, hash) ==
    [store EXCEPT !.canonical = {e \in @ : e[1] # number} \cup {<<number, hash>>}]

\* Store::get_canonical_block_hash: the read of CanonicalBlockHashes
get_canonical_block_hash(store, number) ==
    LET found == {e \in store.canonical : e[1] = number}
    IN IF found = {} THEN None ELSE Some((CHOOSE e \in found : TRUE)[2])

update_finalized_block_number(store, block_number) ==
    [store EXCEPT !.data.finalized = Some(block_number)]
update_safe_block_number(store, block_number) ==
    [store EXCEPT !.data.safe = Some(block_number)]

\* Store::get_block_by_hash: the block whose header and body are both stored
get_block_by_hash(store, hash) ==
    LET header == get_block_header_by_hash(store, hash)
        found == {b \in store.bodies : b[1] = hash}
    IN IF IsNone(header) \/ found = {} THEN None
       ELSE Some(Block(Unwrap(header), (CHOOSE b \in found : TRUE)[2]))

is_canonical(store, block_number, block_hash) ==
    LET canonical == get_canonical_block_hash(store, block_number)
    IN IsSome(canonical) /\ Unwrap(canonical) = block_hash

\* total_difficulty_check over the total difficulties the store holds for the
\* head and its parent and the terminal total difficulty of the chain
\* configuration; a head of difficulty zero is checked when it is block 0
total_difficulty_check(head_block, total_difficulty, parent_total_difficulty, terminal_total_difficulty) ==
    IF head_block.number # 0 THEN "Ok"
    ELSE IF \/ IsNone(terminal_total_difficulty)
            \/ IsNone(total_difficulty)
            \/ (head_block.number > 0 /\ IsNone(parent_total_difficulty))
    THEN "StoreError"
    ELSE IF Unwrap(total_difficulty) < Unwrap(terminal_total_difficulty) THEN "PreMergeBlock"
    ELSE IF /\ head_block.number > 0
            /\ Unwrap(parent_total_difficulty) >= Unwrap(terminal_total_difficulty)
    THEN "StoreError"
    ELSE "Ok"

\* what find_ancestry returns, and the number of its store lookups
Walked(branch, lookups) == [branch |-> branch, lookups |-> lookups]

\* the loop of find_ancestry: header is the block at block_number, branch the
\* pairs pushed so far, lookups the calls of get_block_header_by_hash so far;
\* None when a parent is not stored, when the block at the number of the
\* ancestor is another block, and when the loop is left without found
RECURSIVE walk_ancestry(_, _, _, _, _, _)
walk_ancestry(store, ancestor, block_number, header, branch, lookups) ==
    IF ~(block_number > ancestor.number) THEN Walked(None, lookups)
    ELSE IF IsNone(get_block_header_by_hash(store, header.parent_hash))
    THEN Walked(None, lookups + 1)
    ELSE IF block_number - 1 = ancestor.number
    THEN Walked(IF compute_block_hash(ancestor) = header.parent_hash THEN Some(branch) ELSE None,
                lookups + 1)
    ELSE walk_ancestry(store, ancestor, block_number - 1,
                       Unwrap(get_block_header_by_hash(store, header.parent_hash)),
                       Append(branch, <<block_number - 1, header.parent_hash>>), lookups + 1)

\* a find_ancestry that takes two blocks of one number for the same block
trace_ancestry_by_number(store, ancestor, descendant) ==
    IF ancestor.number = descendant.number THEN Walked(Some(<<>>), 0)
    ELSE walk_ancestry(store, ancestor, descendant.number, descendant, <<>>, 0)

\* a find_ancestry that reads the parent of the descendant before it compares
\* the numbers
trace_ancestry_reading_first(store, ancestor, descendant) ==
    IF ancestor.number = descendant.number
    THEN Walked(IF compute_block_hash(ancestor) = compute_block_hash(descendant)
                THEN Some(<<>>) ELSE None, 1)
    ELSE walk_ancestry(store, ancestor, descendant.number, descendant, <<>>, 0)

\* find_ancestry, with the number of its store lookups
trace_ancestry(store, ancestor, descendant) ==
    IF ancestor.number = descendant.number
    THEN Walked(IF compute_block_hash(ancestor) = compute_block_hash(descendant)
                THEN Some(<<>>) ELSE None, 0)
    ELSE walk_ancestry(store, ancestor, descendant.number, descendant, <<>>, 0)

find_ancestry(store, ancestor, descendant) == trace_ancestry(store, ancestor, descendant).branch

\* for (number, hash) in branch { store.set_canonical_block(number, hash) }
RECURSIVE canonize(_, _)
canonize(store, branch) ==
    IF branch = <<>> THEN store
    ELSE canonize(set_canonical_block(store, Head(branch)[1], Head(branch)[2]), Tail(branch))

Chosen(result, store) == [result |-> result, store |-> store]

\* new_head once the three blocks are found and their order is checked
canonize_head(store, head, safe, finalized, head_ancestry, safe_ancestry) ==
    update_safe_block_number(
        update_finalized_block_number(
            set_canonical_block(
                set_canonical_block(
                    set_canonical_block(
                        canonize(canonize(store, safe_ancestry), head_ancestry),
                        head.number, compute_block_hash(head)),
                    safe.number, compute_block_hash(safe)),
                finalized.number, compute_block_hash(finalized)),
            finalized.number),
        safe.number)

\* a new_head that canonizes the branch of the head before it looks for the
\* branch of the safe block
connect_branches_head_first(store, head, safe, finalized) ==
    IF IsNone(find_ancestry(store, safe, head))
    THEN Chosen("Disconnected(Head, Safe)", store)
    ELSE IF IsNone(find_ancestry(store, finalized, safe))
    THEN Chosen("Disconnected(Safe, Finalized)",
                set_canonical_block(canonize(store, Unwrap(find_ancestry(store, safe, head))),
                                    head.number, compute_block_hash(head)))
    ELSE Chosen("Ok", canonize_head(store, head, safe, finalized,
                                    Unwrap(find_ancestry(store, safe, head)),
                                    Unwrap(find_ancestry(store, finalized, safe))))

\* new_head past the return for a canonical head
connect_branches(store, head, safe, finalized) ==
    IF IsNone(find_ancestry(store, safe, head))
    THEN Chosen("Disconnected(Head, Safe)", store)
    ELSE IF /\ is_canonical(store, safe.number, compute_block_hash(safe))
            /\ is_canonical(store, finalized.number, compute_block_hash(finalized))
    THEN Chosen("Ok", canonize_head(store, head, safe, finalized,
                                    Unwrap(find_ancestry(store, safe, head)), <<>>))
    ELSE IF IsNone(find_ancestry(store, finalized, safe))
    THEN Chosen("Disconnected(Safe, Finalized)", store)
    ELSE Chosen("Ok", canonize_head(store, head, safe, finalized,
                                    Unwrap(find_ancestry(store, safe, head)),
                                    Unwrap(find_ancestry(store, finalized, safe))))

\* a new_head that goes on when the head is canonical
connect_head_without_return(store, head, safe, finalized) ==
    connect_branches(store, head, safe, finalized)

\* new_head from the test of the head: a canonical head is the end of the call
connect_head(store, head, safe, finalized) ==
    IF is_canonical(store, head.number, compute_block_hash(head)) THEN Chosen("Ok", store)
    ELSE connect_branches(store, head, safe, finalized)

\* new_head; difficulties holds the total difficulties and the terminal total
\* difficulty read by total_difficulty_check
new_head(store, head_hash, safe_hash, finalized_hash, difficulties) ==
    LET finalized_header_res == get_block_by_hash(store, finalized_hash)
        safe_header_res == get_block_by_hash(store, safe_hash)
        head_header_res == get_block_by_hash(store, head_hash)
        finalized == Unwrap(finalized_header_res).header
        safe == Unwrap(safe_header_res).header
        head == Unwrap(head_header_res).header
        checked == total_difficulty_check(head, difficulties.total, difficulties.parent,
                                          difficulties.terminal)
    IN IF head_hash = NoHash THEN Chosen("InvalidHeadHash", store)
       ELSE IF IsNone(finalized_header_res) /\ IsSome(safe_header_res)
       THEN Chosen("ElementNotFound", store)
       ELSE IF IsNone(safe_header_res) /\ IsSome(head_header_res)
       THEN Chosen("ElementNotFound", store)
       ELSE IF ~(IsSome(finalized_header_res) /\ IsSome(safe_header_res)
                    /\ IsSome(head_header_res))
       THEN Chosen("Syncing", store)
       ELSE IF checked # "Ok" THEN Chosen(checked, store)
       ELSE IF finalized.number > safe.number \/ safe.number > head.number
       THEN Chosen("Unordered", store)
       ELSE connect_head(store, head, safe, finalized)

\* the blocks of the model: a chain over the genesis block and a side chain
\* that forks from the genesis block, told apart by their coinbase; every
\* block is empty and keeps the state root of its parent
RECURSIVE ChainOver(_, _, _)
ChainOver(parent, coinbase, n) ==
    IF n = 0 THEN {}
    ELSE LET header == Header(compute_block_hash(parent), parent.number + 1,
                              parent.number + 1, coinbase, 0, parent.state_root, None, None)
         IN {header} \cup ChainOver(header, coinbase, n - 1)

MainChain == ChainOver(Genesis, Alice, MaxHeight)
SideChain == ChainOver(Genesis, Bob, MaxSide)
HashChoices == {compute_block_hash(h) : h \in {Genesis} \cup MainChain \cup SideChain} \cup {NoHash}

\* the total difficulties in the store when the head is block 0
NoDifficulties == [total |-> None, parent |-> None, terminal |-> None]
Difficulties(head_hash) ==
    IF head_hash = compute_block_hash(Genesis)
    THEN {[total |-> total, parent |-> None, terminal |-> terminal] :
             total \in OptionOf({0, 1}), terminal \in OptionOf({1})}
    ELSE {NoDifficulties}

TheForkStore == ForkStore(headers, bodies, canonicalBlockHashes, chainData)

\* add_block stores a block whose parent is stored, one number below it: the
\* store holds the genesis block, the first blocks of the chain and the
\* first blocks of the side chain.  The genesis block is canonical, or no
\* block is yet.
InitForkChoice ==
    /\ config = ChainConfig(Some(0), None)
    /\ engine = NoEngine
    /\ accountInfos = Accounts(None, None)
    /\ accountStorage = NoStorage
    /\ \E m \in 0..MaxHeight, s \in 0..MaxSide :
          headers = {Genesis} \cup {h \in MainChain : h.number <= m}
                              \cup {h \in SideChain : h.number <= s}
    /\ bodies = {<<compute_block_hash(h), Body(<<>>, None)>> : h \in headers}
    /\ receipts = NoBlocks
    /\ stateTries = {GenesisWorld}
    /\ canonicalBlockHashes \in {{}, {<<0, compute_block_hash(Genesis)>>}}
    /\ chainData = NoChainData
    /\ evm = EmptyEvm
    /\ vm = NoVm
    /\ memory = <<>>
    /\ pc = "idle"
    /\ last = [op |-> "new", head_hash |-> NoHash, safe_hash |-> NoHash,
               finalized_hash |-> NoHash, difficulties |-> NoDifficulties, result |-> "Ok",
               wrote |-> TRUE]

\* any number of calls, one after the other.  A call that leaves the store as
\* it was is not followed: the calls after it are the calls made in its place.
NewHead(head_hash, safe_hash, finalized_hash) ==
    /\ pc = "idle"
    /\ last.wrote
    /\ \E difficulties \in Difficulties(head_hash) :
       \E r \in {new_head(TheForkStore, head_hash, safe_hash, finalized_hash, difficulties)} :
          /\ canonicalBlockHashes' = r.store.canonical
          /\ chainData' = r.store.data
          /\ last' = [op |-> "new_head", head_hash |-> head_hash, safe_hash |-> safe_hash,
                      finalized_hash |-> finalized_hash, difficulties |-> difficulties,
                      result |-> r.result,
                      wrote |-> r.store # TheForkStore]
    /\ UNCHANGED <<config, engine, accountInfos, accountStorage, headers, bodies, receipts, stateTries,
                   evm, vm, memory, pc>>

NextForkChoice ==
    \E head_hash \in HashChoices, safe_hash \in HashChoices, finalized_hash \in HashChoices :
        NewHead(head_hash, safe_hash, finalized_hash)

SpecForkChoice == InitForkChoice /\ [][NextForkChoice]_vars

-----------------------------------------------------------------------------
(* SpecAncestry: find_ancestry over two headers and a store.  The store is   *)
(* one of SpecForkChoice; the two headers are any blocks of the model,      *)
(* stored or not.                                                           *)

InitAncestry ==
    /\ config = ChainConfig(Some(0), None)
    /\ engine = NoEngine
    /\ accountInfos = Accounts(None, None)
    /\ accountStorage = NoStorage
    /\ \E m \in 0..MaxHeight, s \in 0..MaxSide :
          headers = {Genesis} \cup {h \in MainChain : h.number <= m}
                              \cup {h \in SideChain : h.number <= s}
    /\ bodies = {<<compute_block_hash(h), Body(<<>>, None)>> : h \in headers}
    /\ receipts = NoBlocks
    /\ stateTries = {GenesisWorld}
    /\ canonicalBlockHashes = {}
    /\ chainData = NoChainData
    /\ evm = EmptyEvm
    /\ vm = NoVm
    /\ memory = <<>>
    /\ pc = "idle"
    /\ \E ancestor \in {Genesis} \cup MainChain \cup SideChain,
          descendant \in {Genesis} \cup MainChain \cup SideChain :
          last = [op |-> "find_ancestry", ancestor |-> ancestor, descendant |-> descendant,
                  branch |-> None, lookups |-> 0]

FindAncestry ==
    /\ pc = "idle"
    /\ \E r \in {trace_ancestry(TheForkStore, last.ancestor, last.descendant)} :
          last' = [last EXCEPT !.branch = r.branch, !.lookups = r.lookups]
    /\ pc' = "returned"
    /\ UNCHANGED <<config, engine, storeVars, evm, vm, memory>>

NextAncestry == FindAncestry

SpecAncestry == InitAncestry /\ [][NextAncestry]_vars

-----------------------------------------------------------------------------
(* SpecStore: the Store of crates/storage/src/lib.rs.  A Store holds its    *)
(* engine behind Arc<Mutex<..>>, so a clone of the Store reads and writes   *)
(* the same tables, and every method runs with the mutex held.  The tables  *)
(* are those of the libmdbx engine: a plain table keeps one value for a key *)
(* and the dup-sorted AccountStorages table keeps the entries of an address.*)

MaxAdds == 2       \* add calls of one behaviour
MaxKey == 1        \* block numbers and storage keys are 0..MaxKey
MaxValue == 2      \* storage values are 1..MaxValue

Stores == {"store", "clone"}
StoredAddresses == {Alice, Bob}
StoredInfos == {DefaultInfo, AccountInfo(ToWei(1), 1, SD_CODE)}
StoredHeaders == {Genesis} \cup ChainOver(Genesis, Alice, 1)
StoredBodies == {Body(<<>>, None), Body(<<>>, Some(<<>>))}
StoredHashes == {compute_block_hash(h) : h \in StoredHeaders}
StoredCodeHashes == {BEACON_CODE, SD_CODE}
StoredCodes == {<<STOP>>, <<PUSH0, STOP>>}

NoTable(keys) == [k \in keys |-> None]
Engine(hs, bs, ns, cs) ==
    [block_headers |-> hs, block_bodies |-> bs, block_numbers |-> ns, account_codes |-> cs]

\* the write helper of the engine: upsert on a plain table
write(table, key, value) == [table EXCEPT ![key] = Some(value)]
\* the read helper of the engine: get on a plain table
read(table, key) == table[key]

\* add_storage_at of the engine: upsert on the dup-sorted table, which adds
\* the entry and keeps the entries the address already has
add_storage_at(slots, address, storage_key, storage_value) ==
    [slots EXCEPT ![address] = @ \cup {<<storage_key, storage_value>>}]

Call(op, store, key, value, result, adds) ==
    [op |-> op, store |-> store, key |-> key, value |-> value, result |-> result, adds |-> adds]

InitStore ==
    /\ config = ChainConfig(None, None)
    /\ engine = Engine(NoTable(0..MaxKey), NoTable(0..MaxKey), NoTable(StoredHashes),
                       NoTable(StoredCodeHashes))
    /\ accountInfos = [a \in Addresses |-> None]
    /\ accountStorage = NoStorage
    /\ headers = {}
    /\ bodies = {}
    /\ receipts = NoBlocks
    /\ stateTries = {}
    /\ canonicalBlockHashes = {}
    /\ chainData = NoChainData
    /\ evm = EmptyEvm
    /\ vm = NoVm
    /\ memory = <<>>
    /\ pc = "idle"
    /\ last = Call("new", "store", None, None, None, 0)

AddAccountInfo(store, address, info) ==
    /\ last.adds < MaxAdds
    /\ accountInfos' = write(accountInfos, address, info)
    /\ last' = Call("add_account_info", store, address, info, None, last.adds + 1)
    /\ UNCHANGED <<config, engine, accountStorage, blockVars, chainVars, evm, vm, memory, pc>>

GetAccountInfo(store, address) ==
    /\ last' = Call("get_account_info", store, address, None, read(accountInfos, address),
                    last.adds)
    /\ UNCHANGED <<config, engine, storeVars, evm, vm, memory, pc>>

AddBlockHeader(store, block_number, block_header) ==
    /\ last.adds < MaxAdds
    /\ engine' = [engine EXCEPT !.block_headers = write(@, block_number, block_header)]
    /\ last' = Call("add_block_header", store, block_number, block_header, None, last.adds + 1)
    /\ UNCHANGED <<config, storeVars, evm, vm, memory, pc>>

GetBlockHeader(store, block_number) ==
    /\ last' = Call("get_block_header", store, block_number, None,
                    read(engine.block_headers, block_number), last.adds)
    /\ UNCHANGED <<config, engine, storeVars, evm, vm, memory, pc>>

AddBlockBody(store, block_number, block_body) ==
    /\ last.adds < MaxAdds
    /\ engine' = [engine EXCEPT !.block_bodies = write(@, block_number, block_body)]
    /\ last' = Call("add_block_body", store, block_number, block_body, None, last.adds + 1)
    /\ UNCHANGED <<config, storeVars, evm, vm, memory, pc>>

GetBlockBody(store, block_number) ==
    /\ last' = Call("get_block_body", store, block_number, None,
                    read(engine.block_bodies, block_number), last.adds)
    /\ UNCHANGED <<config, engine, storeVars, evm, vm, memory, pc>>

AddBlockNumber(store, block_hash, block_number) ==
    /\ last.adds < MaxAdds
    /\ engine' = [engine EXCEPT !.block_numbers = write(@, block_hash, block_number)]
    /\ last' = Call("add_block_number", store, block_hash, block_number, None, last.adds + 1)
    /\ UNCHANGED <<config, storeVars, evm, vm, memory, pc>>

GetBlockNumber(store, block_hash) ==
    /\ last' = Call("get_block_number", store, block_hash, None,
                    read(engine.block_numbers, block_hash), last.adds)
    /\ UNCHANGED <<config, engine, storeVars, evm, vm, memory, pc>>

AddAccountCode(store, code_hash, code) ==
    /\ last.adds < MaxAdds
    /\ engine' = [engine EXCEPT !.account_codes = write(@, code_hash, code)]
    /\ last' = Call("add_account_code", store, code_hash, code, None, last.adds + 1)
    /\ UNCHANGED <<config, storeVars, evm, vm, memory, pc>>

GetAccountCode(store, code_hash) ==
    /\ last' = Call("get_account_code", store, code_hash, None,
                    read(engine.account_codes, code_hash), last.adds)
    /\ UNCHANGED <<config, engine, storeVars, evm, vm, memory, pc>>

AddStorageAt(store, address, storage_key, storage_value) ==
    /\ last.adds < MaxAdds
    /\ accountStorage' = add_storage_at(accountStorage, address, storage_key, storage_value)
    /\ last' = Call("add_storage_at", store, <<address, storage_key>>, storage_value, None,
                    last.adds + 1)
    /\ UNCHANGED <<config, engine, accountInfos, blockVars, chainVars, evm, vm, memory, pc>>

GetStorageAt(store, address, storage_key) ==
    /\ last' = Call("get_storage_at", store, <<address, storage_key>>, None,
                    get_storage_at(accountStorage, address, storage_key), last.adds)
    /\ UNCHANGED <<config, engine, storeVars, evm, vm, memory, pc>>

NextStore ==
    \E store \in Stores :
       \/ \E address \in StoredAddresses, info \in StoredInfos :
             AddAccountInfo(store, address, info)
       \/ \E address \in StoredAddresses : GetAccountInfo(store, address)
       \/ \E block_number \in 0..MaxKey, block_header \in StoredHeaders :
             AddBlockHeader(store, block_number, block_header)
       \/ \E block_number \in 0..MaxKey : GetBlockHeader(store, block_number)
       \/ \E block_number \in 0..MaxKey, block_body \in StoredBodies :
             AddBlockBody(store, block_number, block_body)
       \/ \E block_number \in 0..MaxKey : GetBlockBody(store, block_number)
       \/ \E block_hash \in StoredHashes, block_number \in 0..MaxKey :
             AddBlockNumber(store, block_hash, block_number)
       \/ \E block_hash \in StoredHashes : GetBlockNumber(store, block_hash)
       \/ \E code_hash \in StoredCodeHashes, code \in StoredCodes :
             AddAccountCode(store, code_hash, code)
       \/ \E code_hash \in StoredCodeHashes : GetAccountCode(store, code_hash)
       \/ \E address \in StoredAddresses, storage_key \in 0..MaxKey,
             storage_value \in 1..MaxValue :
             AddStorageAt(store, address, storage_key, storage_value)
       \/ \E address \in StoredAddresses, storage_key \in 0..MaxKey :
             GetStorageAt(store, address, storage_key)

SpecStore == InitStore /\ [][NextStore]_vars

-----------------------------------------------------------------------------
(* SpecBodies: BlockBodies::build_from of crates/networking/p2p/rlpx/eth.rs *)
(* over every request of the bounds and every store of bodies.              *)

MaxHashes == 3     \* block hashes of one request
MaxId == 1         \* request ids are 0..MaxId

\* Store::get_block_body_by_hash
get_block_body_by_hash(store, block_hash) ==
    LET found == {b \in store.bodies : b[1] = block_hash}
    IN IF found = {} THEN None ELSE Some((CHOOSE b \in found : TRUE)[2])

BlockBodies(id, block_bodies) == [id |-> id, block_bodies |-> block_bodies]

\* a loop that ends at the first hash the store has no body of
RECURSIVE push_bodies_until_absent(_, _, _)
push_bodies_until_absent(store, blocks_hash, block_bodies) ==
    IF blocks_hash = <<>> THEN block_bodies
    ELSE LET block_body == get_block_body_by_hash(store, Head(blocks_hash))
         IN IF IsNone(block_body) THEN block_bodies
            ELSE push_bodies_until_absent(store, Tail(blocks_hash),
                                          Append(block_bodies, Unwrap(block_body)))

\* the loop of build_from over blocks_hash: the body of a hash is pushed, and
\* a hash the store has no body of is passed over
RECURSIVE push_bodies(_, _, _)
push_bodies(store, blocks_hash, block_bodies) ==
    IF blocks_hash = <<>> THEN block_bodies
    ELSE LET block_body == get_block_body_by_hash(store, Head(blocks_hash))
         IN IF IsNone(block_body) THEN push_bodies(store, Tail(blocks_hash), block_bodies)
            ELSE push_bodies(store, Tail(blocks_hash),
                             Append(block_bodies, Unwrap(block_body)))

\* BlockBodies::build_from
build_from(id, store, blocks_hash) == BlockBodies(id, push_bodies(store, blocks_hash, <<>>))

RequestedHashes == StoredHashes \cup {NoHash}

InitBodies ==
    /\ config = ChainConfig(Some(0), None)
    /\ engine = NoEngine
    /\ accountInfos = Accounts(None, None)
    /\ accountStorage = NoStorage
    /\ \E stored \in [StoredHeaders -> OptionOf(StoredBodies)] :
          /\ headers = {h \in StoredHeaders : IsSome(stored[h])}
          /\ bodies = {<<compute_block_hash(h), Unwrap(stored[h])>> : h \in headers}
    /\ receipts = NoBlocks
    /\ stateTries = {GenesisWorld}
    /\ canonicalBlockHashes = {}
    /\ chainData = NoChainData
    /\ evm = EmptyEvm
    /\ vm = NoVm
    /\ memory = <<>>
    /\ pc = "idle"
    /\ \E id \in 0..MaxId, blocks_hash \in SeqsUpTo(RequestedHashes, MaxHashes) :
          last = [op |-> "build_from", id |-> id, blocks_hash |-> blocks_hash,
                  response |-> None]

BuildFrom ==
    /\ pc = "idle"
    /\ last' = [last EXCEPT !.response = Some(build_from(last.id, TheForkStore, last.blocks_hash))]
    /\ pc' = "returned"
    /\ UNCHANGED <<config, engine, storeVars, evm, vm, memory>>

NextBodies == BuildFrom

SpecBodies == InitBodies /\ [][NextBodies]_vars

-----------------------------------------------------------------------------
(* Properties of the interpreter, under SpecVm *)

Running == Unwrap(vm.current)
NextOpcode == opcode_at(Running, Running.pc)
\* the running frame is about to execute opcode op with n words to pop
Executes(op, n) ==
    /\ pc = "running"
    /\ NextOpcode = Some(op)
    /\ Len(Running.stack) >= n

\* C12: for every bytecode VM::execute returns to its caller: a stack
\* underflow, an invalid jump destination, an unimplemented opcode and running
\* past the end of the code never end it with a panic.
C12_ExecuteNeverPanics == pc # "panicked"

\* C13: when the cost of the next instruction exceeds the remaining gas,
\* execute() ends with all gas consumed: consumed_gas equals gas_limit.
C13_OutOfGasConsumesAll ==
    (Returns("execute") /\ pc = "returned" /\ last.reason = "OutOfGas")
        => vm.consumed_gas = vm.gas_limit

\* C14: in every state of VM::execute consumed_gas is at most gas_limit.
C14_GasWithinLimit == (vm # NoVm) => vm.consumed_gas <= vm.gas_limit

\* the call frames of the VM, the saved ones and the running one
FramesOf(v) == v.call_frames \o (IF IsSome(v.current) THEN <<Unwrap(v.current)>> ELSE <<>>)

\* C15: in every state the stack of every call frame holds at most 1024
\* words.
C15_StackAtMost1024 ==
    (vm # NoVm) => \A i \in DOMAIN FramesOf(vm) : Len(FramesOf(vm)[i].stack) <= 1024

\* C16: in every state there are at most 1024 nested call frames, the saved
\* caller frames and the running frame counted.
C16_DepthAtMost1024 == (vm # NoVm) => Len(FramesOf(vm)) <= 1024

Min(a, b) == IF a <= b THEN a ELSE b
\* floor(63/64 * n)
AllButOne64th(n) == n - ((n + 63) \div 64)

\* C17: the gas of a frame created by CALL is min(requested gas,
\* floor(63/64 * gas remaining in the caller)), and the frame consumes no
\* more gas than that.
C17_ForwardedGasCapped ==
    [][/\ (pc = "running" /\ pc' = "running" /\ Len(vm'.call_frames) > Len(vm.call_frames))
            => Unwrap(vm'.current).gas
                 = Min(Top(Running, 1), AllButOne64th(vm.gas_limit - vm.consumed_gas))
       /\ (pc' = "running" /\ vm'.call_frames # <<>>)
            => vm'.consumed_gas - last'.entries[Len(last'.entries)] <= Unwrap(vm'.current).gas]_vars

\* C18: when a frame created by CALL finishes with STOP or RETURN, it is
\* destroyed and its caller resumes after the CALL with a success code pushed
\* on its stack; when execute() returns, one frame is left on call_frames.
C18_CalleeReturnsToCaller ==
    [][/\ (vm.call_frames # <<>> /\ (Executes(STOP, 0) \/ Executes(RETURN, 2)))
            => /\ pc' = "running"
               /\ vm'.call_frames = SubSeq(vm.call_frames, 1, Len(vm.call_frames) - 1)
               /\ Unwrap(vm'.current).pc = vm.call_frames[Len(vm.call_frames)].pc
               /\ Unwrap(vm'.current).stack
                    = Append(vm.call_frames[Len(vm.call_frames)].stack, SUCCESS_FOR_RETURN)
       /\ (pc = "running" /\ pc' = "returned") => Len(vm'.call_frames) = 1]_vars

\* the offsets of a bytecode that hold a JUMPDEST opcode outside the
\* immediate data of a PUSHn
RECURSIVE JumpDests(_, _)
JumpDests(code, offset) ==
    IF offset >= Len(code) THEN {}
    ELSE IF code[offset + 1] >= PUSH1 /\ code[offset + 1] < PUSH1 + 32
    THEN JumpDests(code, offset + 2 + (code[offset + 1] - PUSH1))
    ELSE (IF code[offset + 1] = JUMPDEST THEN {offset} ELSE {})
            \cup JumpDests(code, offset + 1)

\* C19: JUMP, and JUMPI with a non-zero condition, set the program counter
\* to the target only if the target holds a JUMPDEST that is not immediate
\* data of a PUSHn; any other target is an invalid jump.
C19_JumpOnlyToJumpDest ==
    [][((Executes(JUMP, 1) /\ ~out_of_gas(vm, gas_cost_JUMP))
          \/ (Executes(JUMPI, 2) /\ ~out_of_gas(vm, gas_cost_JUMPI) /\ Top(Running, 2) # 0))
         => IF Top(Running, 1) \in JumpDests(Running.bytecode, 0)
            THEN pc' = "running" /\ Unwrap(vm'.current).pc = Top(Running, 1)
            ELSE pc' # "running" /\ last'.reason = "InvalidJump"]_vars

\* a word read as a two's-complement integer, and back
Signed(w) == IF w >= 2 ^ (WordBits - 1) THEN w - WORD ELSE w
Word(n) == (n + WORD) % WORD
Abs(n) == IF n < 0 THEN 0 - n ELSE n
\* the quotient truncated toward zero
Quotient(a, b) ==
    IF (a < 0) = (b < 0) THEN Abs(a) \div Abs(b) ELSE 0 - (Abs(a) \div Abs(b))

\* C20: for every dividend a and non-zero divisor b, SDIV pushes the signed
\* quotient of a by b truncated toward zero, SDIV(INT_MIN, -1) = INT_MIN, and
\* execution continues with the next instruction.
C20_SdivSignedQuotient ==
    [][(Executes(SDIV, 2) /\ ~out_of_gas(vm, gas_cost_SDIV) /\ Top(Running, 2) # 0)
         => /\ pc' = "running"
            /\ Unwrap(vm'.current).pc = Running.pc + 1
            /\ Unwrap(vm'.current).stack
                 = Append(SubSeq(Running.stack, 1, Len(Running.stack) - 2),
                          Word(Quotient(Signed(Top(Running, 1)), Signed(Top(Running, 2)))))]_vars

\* the running frame executes op on n words with gas for it, pushes result
\* in their place and goes on with the next instruction
Computes(op, n, cost, result) ==
    (Executes(op, n) /\ ~out_of_gas(vm, cost))
        => /\ pc' = "running"
           /\ Unwrap(vm'.current).pc = Running.pc + 1
           /\ Unwrap(vm'.current).stack
                = Append(SubSeq(Running.stack, 1, Len(Running.stack) - n), result)

\* the remainder whose sign is the one of the dividend
Remainder(a, b) == IF a < 0 THEN 0 - (Abs(a) % Abs(b)) ELSE Abs(a) % Abs(b)

\* C21: for every dividend a and non-zero divisor b, SMOD pushes the word
\* whose magnitude is |a| mod |b| and whose sign is the sign of a.
C21_SmodSignOfDividend ==
    [][(Executes(SMOD, 2) /\ Top(Running, 2) # 0)
         => Computes(SMOD, 2, gas_cost_SMOD,
                     Word(Remainder(Signed(Top(Running, 1)), Signed(Top(Running, 2)))))]_vars

\* C22: ADDMOD pushes (a + b) mod N over the unbounded integers for every
\* non-zero N, also when a + b does not fit a word, and 0 for N = 0.
C22_AddmodUnbounded ==
    [][Computes(ADDMOD, 3, gas_cost_ADDMOD,
                IF Top(Running, 3) = 0 THEN 0
                ELSE (Top(Running, 1) + Top(Running, 2)) % Top(Running, 3))]_vars

\* C23: MULMOD pushes (a * b) mod N over the unbounded integers for every
\* non-zero N, and 0 for N = 0.
C23_MulmodUnbounded ==
    [][Computes(MULMOD, 3, gas_cost_MULMOD,
                IF Top(Running, 3) = 0 THEN 0
                ELSE (Top(Running, 1) * Top(Running, 2)) % Top(Running, 3))]_vars

\* a MULMOD whose product does not fit a word has pushed a non-zero remainder
C23_Witness ==
    /\ pc = "running"
    /\ last.opcode = Some(MULMOD)
    /\ Running.bytecode[6] * Running.bytecode[4] >= WORD
    /\ Running.bytecode[2] > 1
    /\ Top(Running, 1) # 0
    /\ Top(Running, 1) = (Running.bytecode[6] * Running.bytecode[4]) % Running.bytecode[2]

\* C24: DIV and MOD push 0 for a zero divisor and execution goes on; for a
\* non-zero divisor b they push floor(a / b) and a mod b, a the first word
\* popped and b the second.
C24_DivModZeroDivisor ==
    [][/\ Computes(DIV, 2, gas_cost_DIV,
                   IF Top(Running, 2) = 0 THEN 0 ELSE Top(Running, 1) \div Top(Running, 2))
       /\ Computes(MOD, 2, gas_cost_MOD,
                   IF Top(Running, 2) = 0 THEN 0 ELSE Top(Running, 1) % Top(Running, 2))]_vars

\* a DIV of a non-zero word by zero has pushed 0 and the frame runs on
C24_Witness ==
    /\ pc = "running"
    /\ last.opcode = Some(DIV)
    /\ Running.bytecode[4] # 0
    /\ Running.bytecode[2] = 0
    /\ Running.stack = <<0>>
    /\ opcode_at(Running, Running.pc) = Some(STOP)

\* floor(a / 2^s) for a of either sign
FloorShift(a, s) == IF a >= 0 THEN a \div 2 ^ s ELSE 0 - ((0 - a + 2 ^ s - 1) \div 2 ^ s)

\* C25: SHL and SHR by the width of the word or more push 0; SAR by that much
\* pushes all ones for a negative value and 0 otherwise; SAR by less, 0
\* included, pushes the floor of the signed value divided by 2^s.
C25_Shifts ==
    [][/\ (pc = "running" /\ Len(Running.stack) >= 2 /\ Top(Running, 1) >= WordBits)
            => /\ Computes(SHL, 2, gas_cost_SHL, 0)
               /\ Computes(SHR, 2, gas_cost_SHR, 0)
               /\ Computes(SAR, 2, gas_cost_SAR,
                           IF Signed(Top(Running, 2)) < 0 THEN WORD - 1 ELSE 0)
       /\ (pc = "running" /\ Len(Running.stack) >= 2 /\ Top(Running, 1) < WordBits)
            => Computes(SAR, 2, gas_cost_SAR,
                        Word(FloorShift(Signed(Top(Running, 2)), Top(Running, 1))))]_vars

\* a SAR by 0 of a negative value has pushed the value itself
C25_Witness ==
    /\ pc = "running"
    /\ last.opcode = Some(SAR)
    /\ Running.bytecode[4] = 0
    /\ Running.bytecode[2] = WORD - 2
    /\ Running.stack = <<WORD - 2>>

\* x with every bit above bit index replaced by a copy of that bit
Extension(x, index) ==
    (x % 2 ^ (index + 1)) + (IF (x \div 2 ^ index) % 2 = 1 THEN WORD - 2 ^ (index + 1) ELSE 0)

\* C26: SIGNEXTEND(b, x) pushes x with every bit above the last bit of byte
\* min(b, last byte of the word) replaced by a copy of that bit; for b at or
\* past the last byte the result is x.
C26_SignExtend ==
    [][/\ Computes(SIGNEXTEND, 2, gas_cost_SIGNEXTEND,
                   Extension(Top(Running, 2),
                             ByteBits * Min(Top(Running, 1), 3) + ByteBits - 1))
       /\ (Executes(SIGNEXTEND, 2) /\ Top(Running, 1) >= 3)
            => Computes(SIGNEXTEND, 2, gas_cost_SIGNEXTEND, Top(Running, 2))]_vars

\* a SIGNEXTEND from byte 1 has set the bits above its sign bit
C26_Witness ==
    /\ pc = "running"
    /\ last.opcode = Some(SIGNEXTEND)
    /\ Running.bytecode[4] = 1
    /\ Running.bytecode[2] = 2 ^ (WordBits - 1) - 1
    /\ Running.stack = <<WORD - 1>>

-----------------------------------------------------------------------------
(* Properties of the memory, under SpecMemory *)

\* C27: after every load, load_range, store_bytes and copy the size of the
\* memory is a multiple of 32, has not decreased and is at least the end of
\* the access; a byte the access does not write keeps its value, and is 0
\* where the memory has grown.
C27_MemoryGrowsByWords ==
    [][/\ Len(memory') % 32 = 0
       /\ Len(memory') >= Len(memory)
       /\ Len(memory') >= last'.end
       /\ \A i \in 1..Len(memory') :
             (i - 1) \notin last'.written
                => memory'[i] = (IF i <= Len(memory) THEN memory[i] ELSE 0)]_vars

\* a read past the end has grown a memory that keeps the byte stored before
C27_Witness ==
    /\ last.op = "MLOAD"
    /\ last.accesses = 2
    /\ last.end = MaxMemory - 1
    /\ last.cost > 0
    /\ Len(memory) >= last.end
    /\ memory[2] = 255

\* cost(w) = 3w + floor(w^2 / 512)
Cost(w) == 3 * w + (w * w) \div 512
CeilWords(n) == (n + 31) \div 32

\* C28: expansion_cost(n) is cost(ceil(n/32)) - cost(ceil(len/32)) when n
\* exceeds the size len of the memory and 0 otherwise; the expansion costs of
\* any sequence of MLOAD, MSTORE, MSTORE8, KECCAK256 and MCOPY sum to the
\* cost of the final size of the memory in words.
C28_ExpansionCost ==
    [][/\ last'.instructions
            => /\ last'.cost = (IF last'.end > Len(memory)
                                THEN Cost(CeilWords(last'.end)) - Cost(CeilWords(Len(memory)))
                                ELSE 0)
               /\ last'.charged = Cost(Len(memory') \div 32)]_vars

\* two instructions have each grown the memory, the second to a size whose
\* cost has a quadratic part
C28_Witness ==
    /\ last.instructions
    /\ last.accesses = 2
    /\ last.cost > 0
    /\ last.charged > last.cost
    /\ Cost(Len(memory) \div 32) > 3 * (Len(memory) \div 32)

-----------------------------------------------------------------------------
(* Properties of the fork choice, under SpecForkChoice *)

\* the header stored under a hash
BlockOf(hash) == Unwrap(get_block_header_by_hash(TheForkStore, hash))

\* ancestor is the block descendant, or is reached from it by parent hashes
\* over stored blocks
RECURSIVE IsAncestorOrSelf(_, _)
IsAncestorOrSelf(ancestor_hash, descendant_hash) ==
    \/ ancestor_hash = descendant_hash
    \/ /\ IsSome(get_block_header_by_hash(TheForkStore, descendant_hash))
       /\ IsAncestorOrSelf(ancestor_hash, BlockOf(descendant_hash).parent_hash)

\* C29: whenever new_head returns Ok, the safe block is the head or an
\* ancestor of the head, and the finalized block is the safe block or an
\* ancestor of the safe block.
C29_OkMeansConnected ==
    (last.op = "new_head" /\ last.result = "Ok")
        => /\ IsAncestorOrSelf(last.safe_hash, last.head_hash)
           /\ IsAncestorOrSelf(last.finalized_hash, last.safe_hash)

\* the hashes of the blocks on the parent-hash chain of head strictly above
\* the block safe
RECURSIVE Between(_, _)
Between(safe_hash, head_hash) ==
    IF head_hash = safe_hash \/ BlockOf(head_hash).parent_hash = safe_hash THEN {}
    ELSE {BlockOf(head_hash).parent_hash}
            \cup Between(safe_hash, BlockOf(head_hash).parent_hash)

\* the block of this hash is the canonical block of its number in the table
Canonized(table, hash) ==
    {e[2] : e \in {x \in table : x[1] = BlockOf(hash).number}} = {hash}

\* C30: when new_head returns Ok for a head that was not canonical, the head,
\* the safe and the finalized block are afterwards the canonical blocks of
\* their numbers, so is every block strictly between the safe block and the
\* head, and the stored safe and finalized block numbers are the numbers of
\* the safe and of the finalized block.
C30_HeadCanonized ==
    [][(/\ last'.op = "new_head"
        /\ last'.result = "Ok"
        /\ ~is_canonical(TheForkStore, BlockOf(last'.head_hash).number, last'.head_hash))
          => /\ Canonized(canonicalBlockHashes', last'.head_hash)
             /\ Canonized(canonicalBlockHashes', last'.safe_hash)
             /\ Canonized(canonicalBlockHashes', last'.finalized_hash)
             /\ \A hash \in Between(last'.safe_hash, last'.head_hash) :
                   Canonized(canonicalBlockHashes', hash)
             /\ chainData'.safe = Some(BlockOf(last'.safe_hash).number)
             /\ chainData'.finalized = Some(BlockOf(last'.finalized_hash).number)]_vars

\* a call has moved the head to the end of the chain, two blocks above the
\* safe block, in a store that holds the side chain: the whole chain is
\* canonical
C30_Witness ==
    /\ last.op = "new_head"
    /\ last.result = "Ok"
    /\ last.wrote
    /\ SideChain \subseteq headers
    /\ BlockOf(last.head_hash).number = MaxHeight
    /\ BlockOf(last.safe_hash).number = MaxHeight - 2
    /\ last.finalized_hash = compute_block_hash(Genesis)
    /\ Cardinality(canonicalBlockHashes) = MaxHeight + 1
    /\ canonicalBlockHashes \cap {<<h.number, compute_block_hash(h)>> : h \in SideChain} = {}
    /\ chainData = [finalized |-> Some(0), safe |-> Some(MaxHeight - 2), latest |-> None]

\* the three hashes are those of stored blocks, in the order of their numbers
Ordered(head_hash, safe_hash, finalized_hash) ==
    /\ IsSome(get_block_by_hash(TheForkStore, head_hash))
    /\ IsSome(get_block_by_hash(TheForkStore, safe_hash))
    /\ IsSome(get_block_by_hash(TheForkStore, finalized_hash))
    /\ BlockOf(finalized_hash).number <= BlockOf(safe_hash).number
    /\ BlockOf(safe_hash).number <= BlockOf(head_hash).number

\* the total difficulties of the call pass the terminal total difficulty check
PostMerge(head_hash, difficulties) ==
    \/ BlockOf(head_hash).number # 0
    \/ /\ IsSome(difficulties.total)
       /\ IsSome(difficulties.terminal)
       /\ Unwrap(difficulties.total) >= Unwrap(difficulties.terminal)

\* C31: when the three blocks are stored and ordered, the head passes the
\* total difficulty check and is the canonical block of its number, new_head
\* returns Ok and leaves the canonical table and the safe and finalized block
\* numbers as they were, whatever the safe and the finalized hash.
C31_CanonicalHeadIgnored ==
    [][(/\ last'.op = "new_head"
        /\ last'.head_hash # NoHash
        /\ Ordered(last'.head_hash, last'.safe_hash, last'.finalized_hash)
        /\ PostMerge(last'.head_hash, last'.difficulties)
        /\ Canonized(canonicalBlockHashes, last'.head_hash))
          => /\ last'.result = "Ok"
             /\ canonicalBlockHashes' = canonicalBlockHashes
             /\ chainData' = chainData]_vars

\* the head of the call before is given again with a safe block of the side
\* chain: the call is ignored, and the safe block number is the one of the
\* call before
C31_Witness ==
    /\ last.op = "new_head"
    /\ last.result = "Ok"
    /\ ~last.wrote
    /\ BlockOf(last.head_hash).number = MaxHeight
    /\ Canonized(canonicalBlockHashes, last.head_hash)
    /\ BlockOf(last.safe_hash) \in SideChain
    /\ ~Canonized(canonicalBlockHashes, last.safe_hash)
    /\ chainData.safe = Some(0)

\* the errors of new_head named by C38
Refusals ==
    {"InvalidHeadHash", "ElementNotFound", "Syncing", "PreMergeBlock", "Unordered",
     "Disconnected(Head, Safe)", "Disconnected(Safe, Finalized)"}

\* C38: when new_head returns InvalidHeadHash, ElementNotFound, Syncing,
\* PreMergeBlock, Unordered or Disconnected, the canonical table and the safe
\* and finalized block numbers are the same as before the call.
C38_RefusalWritesNothing ==
    [][(last'.op = "new_head" /\ last'.result \in Refusals)
          => /\ canonicalBlockHashes' = canonicalBlockHashes
             /\ chainData' = chainData]_vars

\* the last check has refused a head whose branch to the safe block was
\* found, in a store where the side chain is canonical
C38_Witness ==
    /\ last.op = "new_head"
    /\ last.result = "Disconnected(Safe, Finalized)"
    /\ BlockOf(last.head_hash).number = MaxHeight
    /\ last.safe_hash = BlockOf(last.head_hash).parent_hash
    /\ BlockOf(last.finalized_hash) \in SideChain
    /\ Canonized(canonicalBlockHashes, last.finalized_hash)
    /\ ~Canonized(canonicalBlockHashes, last.head_hash)
    /\ IsSome(chainData.safe)

\* C39: after a new_head that has moved the head, no number above the number
\* of the head has a canonical block, and the parent of every canonical block
\* above the finalized block is the canonical block of the number below.
C39_SingleCanonicalChain ==
    (last.op = "new_head" /\ last.result = "Ok" /\ last.wrote)
        => /\ \A e \in canonicalBlockHashes : e[1] <= BlockOf(last.head_hash).number
           /\ \A e \in canonicalBlockHashes :
                 e[1] > Unwrap(chainData.finalized)
                    => <<e[1] - 1, BlockOf(e[2]).parent_hash>> \in canonicalBlockHashes

-----------------------------------------------------------------------------
(* Properties of find_ancestry, under SpecAncestry *)

\* the hashes met when parent hashes are followed from header for steps
\* steps, each through a stored header; None when a header is not stored
RECURSIVE Followed(_, _)
Followed(header, steps) ==
    IF steps = 0 THEN Some(<<>>)
    ELSE IF IsNone(get_block_header_by_hash(TheForkStore, header.parent_hash)) THEN None
    ELSE IF IsNone(Followed(BlockOf(header.parent_hash), steps - 1)) THEN None
    ELSE Some(<<header.parent_hash>> \o Unwrap(Followed(BlockOf(header.parent_hash), steps - 1)))

Distance == last.descendant.number - last.ancestor.number

\* parent hashes followed from the descendant reach the hash of the ancestor
Related ==
    /\ Distance >= 0
    /\ IsSome(Followed(last.descendant, Distance))
    /\ compute_block_hash(last.ancestor)
          = (IF Distance = 0 THEN compute_block_hash(last.descendant)
             ELSE Unwrap(Followed(last.descendant, Distance))[Distance])

C34_AncestryLookups ==
    pc = "returned"
        => /\ last.lookups <= (IF Distance > 0 THEN Distance ELSE 0)
           /\ Distance <= 0 => last.lookups = 0

\* two blocks of one number, one of each chain, are told apart without a
\* lookup
C34_Witness ==
    /\ pc = "returned"
    /\ last.ancestor \in SideChain
    /\ last.descendant \in MainChain
    /\ Distance = 0
    /\ last.lookups = 0
    /\ IsNone(last.branch)

-----------------------------------------------------------------------------
(* Properties of the canonical chain under add_block, under Spec *)

-----------------------------------------------------------------------------
(* Properties of the gas and of the frames of the interpreter, under SpecVm *)

\* the running frame executes op on n words with gas for it, and cost is
\* added to the consumed gas
Charges(op, n, cost) ==
    (Executes(op, n) /\ ~out_of_gas(vm, cost)) => vm'.consumed_gas = vm.consumed_gas + cost

\* C37: DIV, SDIV, MOD, SMOD, ADDMOD and MULMOD charge their static cost
\* whatever their operands, a zero divisor or modulus included, and MCOPY
\* charges its static cost when the size is 0.
C37_StaticCostCharged ==
    [][/\ Charges(DIV, 2, gas_cost_DIV)
       /\ Charges(MOD, 2, gas_cost_MOD)
       /\ Charges(ADDMOD, 3, gas_cost_ADDMOD)
       /\ Charges(MULMOD, 3, gas_cost_MULMOD)
       /\ (Executes(SDIV, 2) /\ Top(Running, 2) = 0) => Charges(SDIV, 2, gas_cost_SDIV)
       /\ (Executes(SMOD, 2) /\ Top(Running, 2) = 0) => Charges(SMOD, 2, gas_cost_SMOD)
       /\ (Executes(MCOPY, 3) /\ Top(Running, 3) = 0)
             => Charges(MCOPY, 3, gas_cost_MCOPY_STATIC)]_vars

\* the frame that made the CALL, as it was saved when the callee began
Caller == vm.call_frames[Len(vm.call_frames)]

\* the size the memory of the caller may have after the return: its size at
\* the CALL, or the end of the return area in whole words when the area is not
\* empty and ends above it
ReturnArea ==
    IF Unwrap(Caller.return_data_size) = 0 THEN Caller.memory
    ELSE Max(Caller.memory,
             next_multiple_of_32(Unwrap(Caller.return_data_offset)
                                    + Unwrap(Caller.return_data_size)))

\* C40: when a callee returns to its caller with RETURN, the stack of the
\* caller is its stack at the CALL with the result pushed, its program
\* counter is the one at the CALL, and its memory does not reach past the
\* return area [ret_offset, ret_offset + ret_size) given to the CALL: return
\* data longer than ret_size is cut.  (The memory of a frame is kept by its
\* size.)
C40_ReturnWritesReturnArea ==
    [][(Executes(RETURN, 2) /\ vm.call_frames # <<>>)
          => /\ pc' = "running"
             /\ Unwrap(vm'.current).stack = Append(Caller.stack, SUCCESS_FOR_RETURN)
             /\ Unwrap(vm'.current).pc = Caller.pc
             /\ Unwrap(vm'.current).memory <= ReturnArea]_vars


-----------------------------------------------------------------------------
(* Properties of the tables of the Store, under SpecStore *)

AddCalls == {"add_account_info", "add_block_header", "add_block_body", "add_block_number",
             "add_account_code", "add_storage_at"}
\* the table an add call writes, named by the get call that reads it
TableOf(op) ==
    CASE op = "add_account_info" -> "get_account_info"
      [] op = "add_block_header" -> "get_block_header"
      [] op = "add_block_body" -> "get_block_body"
      [] op = "add_block_number" -> "get_block_number"
      [] op = "add_account_code" -> "get_account_code"
      [] op = "add_storage_at" -> "get_storage_at"
\* what every get call returns on the present tables, for every key
Reads ==
    [get_account_info |-> [k \in StoredAddresses |-> read(accountInfos, k)],
     get_block_header |-> [k \in 0..MaxKey |-> read(engine.block_headers, k)],
     get_block_body |-> [k \in 0..MaxKey |-> read(engine.block_bodies, k)],
     get_block_number |-> [k \in StoredHashes |-> read(engine.block_numbers, k)],
     get_account_code |-> [k \in StoredCodeHashes |-> read(engine.account_codes, k)],
     get_storage_at |-> [k \in StoredAddresses \X (0..MaxKey) |->
                           get_storage_at(accountStorage, k[1], k[2])]]
NothingRead == [t \in DOMAIN Reads |-> [k \in DOMAIN Reads[t] |-> None]]

\* C35: in every table of the Store a read of a key returns the value most
\* recently added under that key, by the Store or by a clone of it, and
\* nothing when no value was added under it: before any add every read
\* returns nothing, and an add of a value under a key makes the read of that
\* key return the value and leaves the read of every other key as it was
C35_ReadsLatestAdded ==
    /\ [](last.adds = 0 => Reads = NothingRead)
    /\ [][last'.op \in AddCalls =>
             Reads' = [Reads EXCEPT ![TableOf(last'.op)][last'.key] = Some(last'.value)]]_vars


-----------------------------------------------------------------------------
(* Properties of the BlockBodies response, under SpecBodies *)

Built == pc = "returned" /\ last.op = "build_from"
HasBody(block_hash) == \E b \in bodies : b[1] = block_hash
BodyOf(block_hash) == (CHOOSE b \in bodies : b[1] = block_hash)[2]

\* C36: the response build_from builds for a request carries the request id
\* of the request, and its bodies are, in the order of the request, the body
\* of every requested hash the store has a body of, with no entry for a hash
\* the store has no body of
C36_BodiesOfRequest ==
    Built =>
        LET response == Unwrap(last.response)
            present == SelectSeq(last.blocks_hash, HasBody)
        IN /\ response.id = last.id
           /\ Len(response.block_bodies) = Len(present)
           /\ \A i \in 1..Len(present) : response.block_bodies[i] = BodyOf(present[i])
\* a request of three hashes whose first has no body in the store and whose
\* other two have different bodies, answered with the two bodies
C36_Witness ==
    /\ Built
    /\ Len(last.blocks_hash) = 3
    /\ ~HasBody(last.blocks_hash[1])
    /\ Len(Unwrap(last.response).block_bodies) = 2
    /\ Unwrap(last.response).block_bodies[1] # Unwrap(last.response).block_bodies[2]
    /\ Unwrap(last.response).id = last.id
    /\ last.id > 0

====
